---- MODULE Spec2Model ----
(***************************************************************************)
(* CompareIt: the pipeline of run_compare (main.rs) as a state machine.    *)
(*   index -> fingerprint -> generate_candidates -> compare_pair per pair  *)
(*                                                                         *)
(* Representation.                                                         *)
(*   - A path is the sequence of its components, <<"d1","sub","a.txt">>.   *)
(*   - Option<T> is a sequence: <<>> is None, <<v>> is Some(v).            *)
(*   - A u64 SimHash is the set of its set bits, a subset of 0..63; xor is *)
(*     the symmetric difference and count_ones the cardinality.            *)
(*   - An f64 similarity is an exact fraction <<num, den>> in lowest       *)
(*     terms; the values the matcher builds (1, 1 - d/64, 1/2,             *)
(*     3*min/(10*max), 0) are compared exactly.                            *)
(*   - blake3 is collision free: a content hash is a token naming the      *)
(*     content, "" before fingerprinting.                                  *)
(*                                                                         *)
(* Spec is the whole pipeline on a small file system. SpecCalls examines   *)
(* the functions below the pipeline one call at a time (detect_file_type,  *)
(* compare_text_files, compare_structured_files, values_equal) on inputs   *)
(* drawn from bounded sets: call holds the arguments, ret the result.      *)
(***************************************************************************)
EXTENDS Integers, Sequences, FiniteSets, TLC

VARIABLES
    root1,        \* path1 of run_compare
    root2,        \* path2 of run_compare
    disk,         \* root -> set of files (rel, content) under it
    config,       \* CompareConfig
    pc,           \* stage of run_compare
    files1,       \* Vec<FileEntry> of path1
    files2,       \* Vec<FileEntry> of path2
    matcher,      \* locals of all_vs_all_match when it returned
    candidates,   \* Vec<CandidatePair>
    unreadable,   \* paths whose read fails in the compare stage
    results,      \* Vec<ComparisonResult>
    call,         \* a single function under examination: its name and arguments
    ret           \* what that function returned, None until it has

vars == <<root1, root2, disk, config, pc, files1, files2, matcher,
          candidates, unreadable, results, call, ret>>

-----------------------------------------------------------------------------
(* Bounds of the model *)

\* top_k ranges over 0..MaxTopK
MaxTopK == 2
\* max_pairs ranges over None and Some(0..MaxPairsCap)
MaxPairsCap == 1
\* at most this many files fail to read in one stage
MaxReadFailures == 1

-----------------------------------------------------------------------------
(* Generic helpers *)

None == <<>>
Some(v) == <<v>>
IsSome(o) == Len(o) = 1
Unwrap(o) == o[1]

Min(a, b) == IF a <= b THEN a ELSE b
Max(a, b) == IF a >= b THEN a ELSE b

RECURSIVE GCD(_, _)
GCD(a, b) == IF b = 0 THEN a ELSE GCD(b, a % b)

\* the fraction n/d, d > 0, in lowest terms
Rat(n, d) == LET g == GCD(n, d) IN <<n \div g, d \div g>>
RatLess(a, b) == a[1] * b[2] < b[1] * a[2]
One == <<1, 1>>
Zero == <<0, 1>>
Half == <<1, 2>>

Range(s) == {s[i] : i \in 1..Len(s)}

-----------------------------------------------------------------------------
(* The file system the program is run on *)

\* File contents. lines: the lines of the file, each a sequence of characters;
\* nul: a zero byte (or undecodable byte) occurs in the file; size: its length
\* in bytes (fs::metadata); simhash: compute_simhash of the decoded text.
ContentX == [id |-> "X", size |-> 100, nul |-> FALSE,
             lines |-> << <<"h","i">>, <<"y">>, <<"z">> >>,
             simhash |-> {}]
ContentY == [id |-> "Y", size |-> 14, nul |-> FALSE,
             lines |-> << <<"h","i">>, <<"Y">>, <<"z">> >>,
             simhash |-> {0, 1}]
ContentZ == [id |-> "Z", size |-> 9, nul |-> FALSE,
             lines |-> << <<"h","o">>, <<"Y">> >>,
             simhash |-> {0, 1, 2}]
ContentC == [id |-> "C", size |-> 8, nul |-> FALSE,
             lines |-> << <<"n",",","i">>, <<"1",",","2">> >>,
             simhash |-> {5}]
ContentB == [id |-> "B", size |-> 40, nul |-> TRUE,
             lines |-> << >>,
             simhash |-> {}]

\* Files that may exist under the first root: relative path and content
Catalogue1 ==
    { [rel |-> <<"a.txt">>, content |-> ContentX],
      [rel |-> <<"sub", "a.txt">>, content |-> ContentY],
      [rel |-> <<"b.py">>, content |-> ContentX],
      [rel |-> <<"t.csv">>, content |-> ContentC],
      [rel |-> <<"z.log">>, content |-> ContentB] }

\* Files that may exist under the second root
Catalogue2 ==
    { [rel |-> <<"a.txt">>, content |-> ContentX],
      [rel |-> <<"alt", "a.txt">>, content |-> ContentX],
      [rel |-> <<"sub", "a.txt">>, content |-> ContentZ] }

Roots == {"d1", "d2"}

\* Path components in the order of str::cmp (byte order)
ComponentOrder == <<"a.txt", "alt", "b.py", "d1", "d2", "sub", "t.csv", "z.log">>
ComponentRank(c) == CHOOSE i \in 1..Len(ComponentOrder) : ComponentOrder[i] = c

RECURSIVE PathLess(_, _)
\* Path::cmp: component-wise lexicographic order
PathLess(p, q) ==
    IF Len(q) = 0 THEN FALSE
    ELSE IF Len(p) = 0 THEN TRUE
    ELSE IF p[1] = q[1] THEN PathLess(Tail(p), Tail(q))
    ELSE ComponentRank(p[1]) < ComponentRank(q[1])

\* Path::file_name
FileName(path) == path[Len(path)]

\* Path::extension of the file name, lowercased (index_single_file)
ExtensionOf(path) ==
    LET n == FileName(path) IN
    CASE n = "a.txt" -> "txt"
      [] n = "b.py"  -> "py"
      [] n = "t.csv" -> "csv"
      [] n = "z.log" -> "log"
      [] OTHER       -> ""

-----------------------------------------------------------------------------
(* index.rs *)

Whitespace == {" ", "\t", "\r", "\n"}

RECURSIVE TrimStart(_)
TrimStart(l) ==
    IF Len(l) > 0 /\ l[1] \in Whitespace THEN TrimStart(Tail(l)) ELSE l

RECURSIVE TrimEnd(_)
TrimEnd(l) ==
    IF Len(l) > 0 /\ l[Len(l)] \in Whitespace
    THEN TrimEnd(SubSeq(l, 1, Len(l) - 1)) ELSE l

\* str::trim
Trim(l) == TrimEnd(TrimStart(l))

RECURSIVE SplitFrom(_, _, _)
\* str::split(delimiter): cur is the part being read
SplitFrom(l, d, cur) ==
    IF Len(l) = 0 THEN <<cur>>
    ELSE IF l[1] = d THEN <<cur>> \o SplitFrom(Tail(l), d, <<>>)
    ELSE SplitFrom(Tail(l), d, Append(cur, l[1]))

Split(l, d) == SplitFrom(l, d, <<>>)

\* parse_header: Some(trimmed parts) when there are at least 2 parts
parse_header(line, delimiter) ==
    LET parts == Split(line, delimiter) IN
    IF Len(parts) >= 2
    THEN Some([i \in 1..Len(parts) |-> Trim(parts[i])])
    ELSE None

\* try_detect_structured without the test that every part is a column name
try_detect_structured_any_parts(line, delimiter) ==
    LET parts == Split(line, delimiter) IN
    IF Len(parts) < 2 THEN None
    ELSE Some([i \in 1..Len(parts) |-> Trim(parts[i])])

\* try_detect_structured: at least 2 parts, each non-empty after trimming
\* (the length and newline tests of the source hold of every line here)
try_detect_structured(line, delimiter) ==
    LET parts == Split(line, delimiter) IN
    IF Len(parts) < 2 THEN None
    ELSE IF \A i \in 1..Len(parts) : Len(Trim(parts[i])) > 0
         THEN Some([i \in 1..Len(parts) |-> Trim(parts[i])])
         ELSE None

\* detect_file_type: <<file_type, line_count, columns>>
detect_file_type(content, extension) ==
    LET is_csv_ext == extension = "csv"
        is_tsv_ext == extension = "tsv" \/ extension = "tab"
        first_line == IF Len(content.lines) > 0
                      THEN Trim(content.lines[1]) ELSE <<>>
        line_count == Len(content.lines)
        delimiter  == IF is_tsv_ext THEN "\t" ELSE ","
        byExt      == parse_header(first_line, delimiter)
        byComma    == try_detect_structured(first_line, ",")
        byTab      == try_detect_structured(first_line, "\t")
    IN
    IF content.nul THEN <<"Binary", 0, None>>
    ELSE IF (is_csv_ext \/ is_tsv_ext) /\ IsSome(byExt)
         THEN <<IF is_tsv_ext THEN "Tsv" ELSE "Csv", line_count, byExt>>
    ELSE IF Len(first_line) > 0 /\ IsSome(byComma)
         THEN <<"Csv", line_count, byComma>>
    ELSE IF Len(first_line) > 0 /\ IsSome(byTab)
         THEN <<"Tsv", line_count, byTab>>
    ELSE <<"Text", line_count, None>>

\* index_single_file: the entry of the file at root/rel
index_single_file(root, f) ==
    LET path == <<root>> \o f.rel
        extension == ExtensionOf(path)
        d == detect_file_type(f.content, extension)
    IN [path |-> path,
        size |-> f.content.size,
        file_type |-> d[1],
        extension |-> extension,
        content_hash |-> "",
        simhash |-> None,
        schema_signature |-> None,
        line_count |-> d[2],
        columns |-> d[3]]

RECURSIVE SortByPath(_)
\* entries.sort_by(|a, b| a.path.cmp(&b.path)) on a set of entries with
\* distinct paths
SortByPath(S) ==
    IF S = {} THEN <<>>
    ELSE LET m == CHOOSE e \in S : \A o \in S \ {e} : PathLess(e.path, o.path)
         IN <<m>> \o SortByPath(S \ {m})

\* index_directory: every regular file under the root, sorted by path
index_directory(root) ==
    SortByPath({index_single_file(root, f) : f \in disk[root]})

\* the file an entry was indexed from
FileAt(path) ==
    CHOOSE f \in disk[path[1]] : <<path[1]>> \o f.rel = path

-----------------------------------------------------------------------------
(* fingerprint.rs *)

\* Characters in byte order
CharOrder == <<"\t", " ", ",", "1", "2", "Y", "h", "i", "n", "o", "y", "z", "|">>
CharRank(c) == CHOOSE i \in 1..Len(CharOrder) : CharOrder[i] = c

RECURSIVE StrLess(_, _)
\* str::cmp on character sequences
StrLess(a, b) ==
    IF Len(b) = 0 THEN FALSE
    ELSE IF Len(a) = 0 THEN TRUE
    ELSE IF a[1] = b[1] THEN StrLess(Tail(a), Tail(b))
    ELSE CharRank(a[1]) < CharRank(b[1])

RECURSIVE InsertStr(_, _)
InsertStr(sorted, x) ==
    IF Len(sorted) = 0 THEN <<x>>
    ELSE IF StrLess(x, sorted[1]) THEN <<x>> \o sorted
    ELSE <<sorted[1]>> \o InsertStr(Tail(sorted), x)

RECURSIVE SortStrs(_)
\* Vec<String>::sort
SortStrs(s) ==
    IF Len(s) = 0 THEN <<>>
    ELSE InsertStr(SortStrs(SubSeq(s, 1, Len(s) - 1)), s[Len(s)])

RECURSIVE Join(_, _)
\* [String]::join(sep)
Join(s, sep) ==
    IF Len(s) = 0 THEN <<>>
    ELSE IF Len(s) = 1 THEN s[1]
    ELSE s[1] \o <<sep>> \o Join(Tail(s), sep)

\* the signature of the column names in the order given
compute_schema_signature_unsorted(columns) == Join(columns, "|")

\* compute_schema_signature: the digest of the sorted column names joined by
\* '|'; the digest is injective, so the joined string stands for it
compute_schema_signature(columns) == Join(SortStrs(columns), "|")

\* hamming_distance: (hash1 ^ hash2).count_ones()
hamming_distance(hash1, hash2) ==
    Cardinality((hash1 \ hash2) \cup (hash2 \ hash1))

\* number of bits of a SimHash
SimHashBits == 64

\* simhash_similarity: 1.0 - distance / 64.0
simhash_similarity(hash1, hash2) ==
    Rat(SimHashBits - hamming_distance(hash1, hash2), SimHashBits)

\* compute_fingerprint_for_entry with the Csv/Tsv arm computing the simhash only
compute_fingerprint_for_entry_no_signature(entry, readOk) ==
    LET content == FileAt(entry.path).content
        hashed == [entry EXCEPT !.content_hash = content.id]
    IN
    IF ~readOk THEN entry
    ELSE IF entry.file_type \in {"Text", "Csv", "Tsv"}
         THEN [hashed EXCEPT !.simhash = Some(content.simhash)]
    ELSE hashed

\* compute_fingerprint_for_entry; readOk: fs::read of the file succeeded
compute_fingerprint_for_entry(entry, readOk) ==
    LET content == FileAt(entry.path).content
        hashed == [entry EXCEPT !.content_hash = content.id]
    IN
    IF ~readOk THEN entry
    ELSE IF entry.file_type = "Text"
         THEN [hashed EXCEPT !.simhash = Some(content.simhash)]
    ELSE IF entry.file_type \in {"Csv", "Tsv"}
         THEN [hashed EXCEPT
                 !.schema_signature =
                     IF IsSome(entry.columns)
                     THEN Some(compute_schema_signature(Unwrap(entry.columns)))
                     ELSE None,
                 !.simhash = Some(content.simhash)]
    ELSE hashed

\* compute_fingerprints: every entry enriched in place; failed: the paths
\* whose read fails (a warning is printed and the entry is left as indexed)
compute_fingerprints(entries, failed) ==
    [i \in 1..Len(entries) |->
        compute_fingerprint_for_entry(entries[i], entries[i].path \notin failed)]

-----------------------------------------------------------------------------
(* match_files.rs *)

\* FileType::is_structured
is_structured(file_type) == file_type \in {"Csv", "Tsv"}

\* estimate_similarity looking at the schema signatures before the SimHashes
estimate_similarity_schema_first(f1, f2) ==
    IF f1.content_hash # "" /\ f1.content_hash = f2.content_hash THEN One
    ELSE IF /\ IsSome(f1.schema_signature) /\ IsSome(f2.schema_signature)
            /\ f1.schema_signature = f2.schema_signature
         THEN Half
    ELSE IF IsSome(f1.simhash) /\ IsSome(f2.simhash)
         THEN simhash_similarity(Unwrap(f1.simhash), Unwrap(f2.simhash))
    ELSE IF f1.size > 0 /\ f2.size > 0
         THEN Rat(3 * Min(f1.size, f2.size), 10 * Max(f1.size, f2.size))
    ELSE Zero

\* estimate_similarity
estimate_similarity(f1, f2) ==
    IF f1.content_hash # "" /\ f1.content_hash = f2.content_hash THEN One
    ELSE IF IsSome(f1.simhash) /\ IsSome(f2.simhash)
         THEN simhash_similarity(Unwrap(f1.simhash), Unwrap(f2.simhash))
    ELSE IF /\ IsSome(f1.schema_signature) /\ IsSome(f2.schema_signature)
            /\ f1.schema_signature = f2.schema_signature
         THEN Half
    ELSE IF f1.size > 0 /\ f2.size > 0
         THEN Rat(3 * Min(f1.size, f2.size), 10 * Max(f1.size, f2.size))
    ELSE Zero

text_exts == {"txt", "log", "md", "rst", ""}
csv_exts == {"csv", "tsv", "tab"}
code_exts == {"rs", "py", "js", "ts", "java", "c", "cpp", "h", "hpp", "go"}
config_exts == {"json", "yaml", "yml", "toml", "ini", "cfg"}

in_same_group(e1, e2, group) == e1 \in group /\ e2 \in group

\* extensions_compatible
extensions_compatible(ext1, ext2) ==
    \/ ext1 = ext2
    \/ in_same_group(ext1, ext2, text_exts)
    \/ in_same_group(ext1, ext2, csv_exts)
    \/ in_same_group(ext1, ext2, code_exts)
    \/ in_same_group(ext1, ext2, config_exts)

\* Rule 2 of passes_blocking_rules: ratio = size1 / size2 lies in [0.1, 10]
\* when both sizes are positive
size_ratio_ok(f1, f2) ==
    (f1.size > 0 /\ f2.size > 0) =>
        ~(10 * f1.size < f2.size \/ f1.size > 10 * f2.size)

\* Rule 4 of passes_blocking_rules: Binary only against Binary
file_types_compatible(f1, f2) ==
    (f1.file_type = "Binary") = (f2.file_type = "Binary")

\* Mutant: the extension rule is not applied
passes_blocking_rules_no_extension_rule(f1, f2) ==
    /\ size_ratio_ok(f1, f2)
    /\ file_types_compatible(f1, f2)

\* passes_blocking_rules (rule 3, the schema rule, rejects nothing)
passes_blocking_rules(f1, f2) ==
    /\ extensions_compatible(f1.extension, f2.extension)
    /\ size_ratio_ok(f1, f2)
    /\ file_types_compatible(f1, f2)

\* the flag without the test for an empty hash
hash_flag_of_empty_hashes(f1, f2) == f1.content_hash = f2.content_hash

\* the exact_hash_match flag match_by_path and match_by_name compute
hash_flag(f1, f2) == f1.content_hash # "" /\ f1.content_hash = f2.content_hash

CandidatePair(f1, f2, sim, exact) ==
    [file1 |-> f1, file2 |-> f2, estimated_similarity |-> sim,
     exact_hash_match |-> exact]

RECURSIVE FilterSeq(_, _)
\* iter().filter(..): the subsequence of s at the indices in keep
FilterSeq(s, keep) ==
    IF Len(s) = 0 THEN <<>>
    ELSE LET rest == FilterSeq(SubSeq(s, 1, Len(s) - 1), keep)
         IN IF Len(s) \in keep THEN Append(rest, s[Len(s)]) ELSE rest

RECURSIVE ConcatAll(_)
ConcatAll(ss) == IF Len(ss) = 0 THEN <<>> ELSE ss[1] \o ConcatAll(Tail(ss))

\* match_by_path: for each side-1 entry whose path is a key of map2
match_by_path(fs1, fs2) ==
    LET pairFor(f1) ==
            LET hits == {j \in 1..Len(fs2) : fs2[j].path = f1.path} IN
            IF hits = {} THEN <<>>
            ELSE LET f2 == fs2[CHOOSE j \in hits : TRUE]
                 IN <<CandidatePair(f1, f2, estimate_similarity(f1, f2),
                                    hash_flag(f1, f2))>>
    IN ConcatAll([i \in 1..Len(fs1) |-> pairFor(fs1[i])])

RECURSIVE MaxByFrom(_, _, _)
\* Iterator::max_by over cands with the comparison of match_by_name: the
\* fold keeps the running best only when it compares Greater than the next
MaxByFrom(f1, best, cands) ==
    IF Len(cands) = 0 THEN best
    ELSE LET next == cands[1]
             greater == RatLess(estimate_similarity(f1, next),
                                estimate_similarity(f1, best))
         IN MaxByFrom(f1, IF greater THEN best ELSE next, Tail(cands))

max_by_similarity(f1, cands) == MaxByFrom(f1, cands[1], Tail(cands))

\* match_by_name: for each side-1 entry the best same-name side-2 entry
match_by_name(fs1, fs2) ==
    LET pairFor(f1) ==
            LET cands == FilterSeq(fs2, {j \in 1..Len(fs2) :
                                      FileName(fs2[j].path) = FileName(f1.path)})
            IN IF Len(cands) = 0 THEN <<>>
               ELSE LET f2 == max_by_similarity(f1, cands)
                    IN <<CandidatePair(f1, f2, estimate_similarity(f1, f2),
                                       hash_flag(f1, f2))>>
    IN ConcatAll([i \in 1..Len(fs1) |-> pairFor(fs1[i])])

RECURSIVE InsertDescBeforeTies(_, _)
\* Mutant: an unstable sort, x goes in front of the elements it ties with
InsertDescBeforeTies(sorted, x) ==
    IF Len(sorted) = 0 THEN <<x>>
    ELSE IF ~RatLess(x.estimated_similarity, sorted[1].estimated_similarity)
         THEN <<x>> \o sorted
    ELSE <<sorted[1]>> \o InsertDescBeforeTies(Tail(sorted), x)

RECURSIVE InsertDesc(_, _)
\* place x after every element whose estimate is not smaller
InsertDesc(sorted, x) ==
    IF Len(sorted) = 0 THEN <<x>>
    ELSE IF RatLess(sorted[1].estimated_similarity, x.estimated_similarity)
         THEN <<x>> \o sorted
    ELSE <<sorted[1]>> \o InsertDesc(Tail(sorted), x)

RECURSIVE sort_by_similarity(_)
\* sort_by(|a, b| b.sim.partial_cmp(&a.sim)): stable, descending
sort_by_similarity(s) ==
    IF Len(s) = 0 THEN <<>>
    ELSE InsertDesc(sort_by_similarity(SubSeq(s, 1, Len(s) - 1)), s[Len(s)])

\* into_iter().take(n) / truncate(n)
Take(s, n) == SubSeq(s, 1, Min(n, Len(s)))

RECURSIVE exact_hash_pass_no_consume(_, _, _, _)
\* Mutant: the side-2 entry of a pair is not marked matched
exact_hash_pass_no_consume(fs1, fs2, i, acc) ==
    IF i > Len(fs1) THEN acc
    ELSE
      LET f1 == fs1[i]
          free == {j \in 1..Len(fs2) :
                      /\ fs2[j].content_hash # ""
                      /\ fs2[j].content_hash = f1.content_hash}
      IN IF f1.content_hash = "" \/ free = {}
         THEN exact_hash_pass_no_consume(fs1, fs2, i + 1, acc)
         ELSE LET j == CHOOSE k \in free : \A o \in free : k <= o
                  f2 == fs2[j]
              IN exact_hash_pass_no_consume(fs1, fs2, i + 1,
                   [pairs |-> Append(acc.pairs, CandidatePair(f1, f2, One, TRUE)),
                    matched_in_set1 |-> acc.matched_in_set1 \cup {f1.path},
                    matched_in_set2 |-> acc.matched_in_set2 \cup {f2.path}])

RECURSIVE exact_hash_pass(_, _, _, _)
\* First pass of all_vs_all_match from side-1 index i on; acc holds the pairs
\* pushed and the two matched sets so far
exact_hash_pass(fs1, fs2, i, acc) ==
    IF i > Len(fs1) THEN acc
    ELSE
      LET f1 == fs1[i]
          free == {j \in 1..Len(fs2) :
                      /\ fs2[j].content_hash # ""
                      /\ fs2[j].content_hash = f1.content_hash
                      /\ fs2[j].path \notin acc.matched_in_set2}
      IN IF f1.content_hash = "" \/ free = {}
         THEN exact_hash_pass(fs1, fs2, i + 1, acc)
         ELSE LET j == CHOOSE k \in free : \A o \in free : k <= o
                  f2 == fs2[j]
              IN exact_hash_pass(fs1, fs2, i + 1,
                   [pairs |-> Append(acc.pairs, CandidatePair(f1, f2, One, TRUE)),
                    matched_in_set1 |-> acc.matched_in_set1 \cup {f1.path},
                    matched_in_set2 |-> acc.matched_in_set2 \cup {f2.path}])

\* Mutant: the sorted candidates are not cut to top_k
top_k_candidates_not_cut(f1, unmatched2, top_k) ==
    LET eligible == FilterSeq(unmatched2, {j \in 1..Len(unmatched2) :
                                        passes_blocking_rules(f1, unmatched2[j])})
        scored == [j \in 1..Len(eligible) |->
                     CandidatePair(f1, eligible[j],
                                   estimate_similarity(f1, eligible[j]), FALSE)]
    IN sort_by_similarity(scored)

\* the top_k candidates of one unmatched side-1 entry
top_k_candidates(f1, unmatched2, top_k) ==
    LET eligible == FilterSeq(unmatched2, {j \in 1..Len(unmatched2) :
                                        passes_blocking_rules(f1, unmatched2[j])})
        scored == [j \in 1..Len(eligible) |->
                     CandidatePair(f1, eligible[j],
                                   estimate_similarity(f1, eligible[j]), FALSE)]
    IN Take(sort_by_similarity(scored), top_k)

\* Mutant: the side-2 entries are not filtered by matched_in_set2
similarity_pass_all_of_side2(fs1, fs2, matched1, matched2, top_k) ==
    LET unmatched1 == FilterSeq(fs1, {i \in 1..Len(fs1) : fs1[i].path \notin matched1})
    IN ConcatAll([i \in 1..Len(unmatched1) |->
                     top_k_candidates(unmatched1[i], fs2, top_k)])

\* Second pass of all_vs_all_match
similarity_pass(fs1, fs2, matched1, matched2, top_k) ==
    LET unmatched1 == FilterSeq(fs1, {i \in 1..Len(fs1) : fs1[i].path \notin matched1})
        unmatched2 == FilterSeq(fs2, {j \in 1..Len(fs2) : fs2[j].path \notin matched2})
    IN ConcatAll([i \in 1..Len(unmatched1) |->
                     top_k_candidates(unmatched1[i], unmatched2, top_k)])

\* Mutant: the cap is applied before the sort
sort_and_cap_before_sort(all_pairs, max_pairs) ==
    sort_by_similarity(IF IsSome(max_pairs)
                       THEN Take(all_pairs, Unwrap(max_pairs)) ELSE all_pairs)

\* the sort and the max_pairs cap that end all_vs_all_match
sort_and_cap(all_pairs, max_pairs) ==
    LET sorted == sort_by_similarity(all_pairs)
    IN IF IsSome(max_pairs) THEN Take(sorted, Unwrap(max_pairs)) ELSE sorted

NoMatcher ==
    [exact |-> <<>>, similar |-> <<>>,
     matched_in_set1 |-> {}, matched_in_set2 |-> {}, out |-> <<>>]

\* all_vs_all_match: its locals when it returns; out is the returned vector
all_vs_all_match(fs1, fs2, top_k, max_pairs) ==
    LET first == exact_hash_pass(fs1, fs2, 1,
                    [pairs |-> <<>>, matched_in_set1 |-> {},
                     matched_in_set2 |-> {}])
        second == similarity_pass(fs1, fs2, first.matched_in_set1,
                                  first.matched_in_set2, top_k)
    IN [exact |-> first.pairs,
        similar |-> second,
        matched_in_set1 |-> first.matched_in_set1,
        matched_in_set2 |-> first.matched_in_set2,
        out |-> sort_and_cap(first.pairs \o second, max_pairs)]

\* generate_candidates
generate_candidates(fs1, fs2, cfg) ==
    CASE cfg.pairing = "SamePath" ->
            [NoMatcher EXCEPT !.out = match_by_path(fs1, fs2)]
      [] cfg.pairing = "SameName" ->
            [NoMatcher EXCEPT !.out = match_by_name(fs1, fs2)]
      [] cfg.pairing = "AllVsAll" ->
            all_vs_all_match(fs1, fs2, cfg.top_k, cfg.max_pairs)

-----------------------------------------------------------------------------
(* main.rs: the comparison stage *)

\* path.display().to_string()
Display(path) == path

\* &hash[..16.min(hash.len())]: the first 16 hex digits of a digest, which
\* name the digest as the digest names the content; "" of the empty hash
HashPrefix(hash) == IF hash = "" THEN "" ELSE hash

\* format!("{}:{}", ..)
linked_id_of(file1, file2) ==
    <<HashPrefix(file1.content_hash), ":", HashPrefix(file2.content_hash)>>

\* Mutant: every identical pair is reported as a Text result
create_identical_result_always_text(file1, file2) ==
    [type |-> "Text",
     linked_id |-> <<file1.content_hash, ":", file2.content_hash>>,
     file1_path |-> file1.path,
     file2_path |-> file2.path,
     file1_line_count |-> file1.line_count,
     file2_line_count |-> file2.line_count,
     common_lines |-> file1.line_count,
     only_in_file1 |-> 0,
     only_in_file2 |-> 0,
     similarity_score |-> One,
     different_positions |-> <<>>,
     detailed_diff |-> <<>>,
     diff_truncated |-> FALSE,
     identical |-> TRUE]

\* create_identical_result
create_identical_result(file1, file2) ==
    IF file1.file_type = "Binary" \/ file2.file_type = "Binary"
    THEN [type |-> "HashOnly",
          linked_id |-> linked_id_of(file1, file2),
          file1_path |-> Display(file1.path),
          file2_path |-> Display(file2.path),
          file1_size |-> file1.size,
          file2_size |-> file2.size,
          identical |-> TRUE]
    ELSE IF is_structured(file1.file_type) /\ is_structured(file2.file_type)
    THEN [type |-> "Structured",
          linked_id |-> linked_id_of(file1, file2),
          file1_path |-> Display(file1.path),
          file2_path |-> Display(file2.path),
          file1_row_count |-> file1.line_count,
          file2_row_count |-> file2.line_count,
          common_records |-> file1.line_count,
          only_in_file1 |-> 0,
          only_in_file2 |-> 0,
          similarity_score |-> One,
          field_mismatches |-> <<>>,
          total_field_mismatches |-> 0,
          columns_only_in_file1 |-> <<>>,
          columns_only_in_file2 |-> <<>>,
          common_columns |-> IF IsSome(file1.columns)
                             THEN Unwrap(file1.columns) ELSE <<>>,
          identical |-> TRUE]
    ELSE [type |-> "Text",
          linked_id |-> linked_id_of(file1, file2),
          file1_path |-> Display(file1.path),
          file2_path |-> Display(file2.path),
          file1_line_count |-> file1.line_count,
          file2_line_count |-> file2.line_count,
          common_lines |-> file1.line_count,
          only_in_file1 |-> 0,
          only_in_file2 |-> 0,
          similarity_score |-> One,
          different_positions |-> <<>>,
          detailed_diff |-> <<>>,
          diff_truncated |-> FALSE,
          identical |-> TRUE]

\* auto_detect_mode choosing the text comparator for every pair
auto_detect_mode_always_text(file1, file2) == "Text"

\* auto_detect_mode
auto_detect_mode(file1, file2) ==
    IF is_structured(file1.file_type) /\ is_structured(file2.file_type)
    THEN "Structured" ELSE "Text"

\* ComparisonResult::Error of a pair
ErrorResult(pair, msg) ==
    [type |-> "Error",
     file1_path |-> Display(pair.file1.path),
     file2_path |-> Display(pair.file2.path),
     error |-> msg]

\* The comparator a pair is dispatched to opens both files before anything
\* else: Err as soon as one of them cannot be read
comparator_fails(pair, bad) ==
    pair.file1.path \in bad \/ pair.file2.path \in bad

\* The Ok value of compare_text_files / compare_structured_files: the variant
\* and the fields that name the pair
ComparedResult(pair, variant) ==
    [type |-> variant,
     linked_id |-> linked_id_of(pair.file1, pair.file2),
     file1_path |-> Display(pair.file1.path),
     file2_path |-> Display(pair.file2.path)]

\* compare_pair; bad: the paths that cannot be read during this stage
compare_pair(pair, cfg, bad) ==
    IF pair.exact_hash_match
    THEN create_identical_result(pair.file1, pair.file2)
    ELSE LET mode == IF cfg.mode = "Auto"
                     THEN auto_detect_mode(pair.file1, pair.file2)
                     ELSE cfg.mode
         IN IF comparator_fails(pair, bad)
            THEN ErrorResult(pair, "read failed")
            ELSE ComparedResult(pair, mode)

\* Mutant: the first failing comparator ends the batch
compare_all_abort_on_error(pairs, cfg, bad) ==
    LET failing == {i \in 1..Len(pairs) :
                      ~pairs[i].exact_hash_match /\ comparator_fails(pairs[i], bad)}
        upto == IF failing = {} THEN Len(pairs)
                ELSE (CHOOSE i \in failing : \A o \in failing : i <= o) - 1
    IN [i \in 1..upto |-> compare_pair(pairs[i], cfg, bad)]

\* candidates.par_iter().map(|pair| compare_pair(pair, config)).collect():
\* rayon's indexed collect keeps the order of the candidates
compare_all(pairs, cfg, bad) ==
    [i \in 1..Len(pairs) |-> compare_pair(pairs[i], cfg, bad)]

-----------------------------------------------------------------------------
(* run_compare *)

CompareModes == {"Auto", "Text", "Structured"}
PairingStrategies == {"SamePath", "SameName", "AllVsAll"}

Configs ==
    [mode : CompareModes,
     pairing : PairingStrategies,
     top_k : 0..MaxTopK,
     max_pairs : {None} \cup {Some(m) : m \in 0..MaxPairsCap}]

\* the paths of the indexed files of both sides
AllPaths == {files1[i].path : i \in 1..Len(files1)}
              \cup {files2[i].path : i \in 1..Len(files2)}

\* the reads that may fail while fingerprinting: any file of either side
FingerprintFailures ==
    {F \in SUBSET AllPaths : Cardinality(F) <= MaxReadFailures}

\* the paths the comparison stage opens: those of the pairs that are compared
\* rather than answered from the hash
PathsCompared ==
    UNION {{candidates[i].file1.path, candidates[i].file2.path} :
              i \in {k \in 1..Len(candidates) : ~candidates[k].exact_hash_match}}

\* the reads that may fail in the comparison stage
CompareFailures ==
    {F \in SUBSET PathsCompared : Cardinality(F) <= MaxReadFailures}

\* no single function is under examination
NoCall == [fn |-> "none"]

Init ==
    /\ root1 = "d1"
    /\ root2 \in Roots
    /\ disk \in [d1 : SUBSET Catalogue1, d2 : SUBSET Catalogue2]
    /\ root2 = "d1" => disk.d2 = {}
    /\ config \in Configs
    /\ pc = "index"
    /\ files1 = <<>>
    /\ files2 = <<>>
    /\ matcher = NoMatcher
    /\ candidates = <<>>
    /\ unreadable = {}
    /\ results = <<>>
    /\ call = NoCall
    /\ ret = None

\* Stage 1: index_path on both paths
Index ==
    /\ pc = "index"
    /\ files1' = index_directory(root1)
    /\ files2' = index_directory(root2)
    /\ pc' = "fingerprint"
    /\ UNCHANGED <<root1, root2, disk, config, matcher, candidates,
                   unreadable, results, call, ret>>

\* Stage 2: compute_fingerprints on both sets
Fingerprint ==
    /\ pc = "fingerprint"
    /\ \E failed \in FingerprintFailures :
          /\ files1' = compute_fingerprints(files1, failed)
          /\ files2' = compute_fingerprints(files2, failed)
    /\ pc' = "match"
    /\ UNCHANGED <<root1, root2, disk, config, matcher, candidates,
                   unreadable, results, call, ret>>

\* Stage 3: generate_candidates
Match ==
    /\ pc = "match"
    /\ matcher' = generate_candidates(files1, files2, config)
    /\ candidates' = matcher'.out
    /\ pc' = "compare"
    /\ UNCHANGED <<root1, root2, disk, config, files1, files2, unreadable,
                   results, call, ret>>

\* Stage 4: compare_pair on every candidate
Compare ==
    /\ pc = "compare"
    /\ \E bad \in CompareFailures :
          /\ unreadable' = bad
          /\ results' = compare_all(candidates, config, bad)
    /\ pc' = "done"
    /\ UNCHANGED <<root1, root2, disk, config, files1, files2, matcher,
                   candidates, call, ret>>

Next == Index \/ Fingerprint \/ Match \/ Compare

Spec == Init /\ [][Next]_vars

-----------------------------------------------------------------------------
(* Properties *)

Matched == pc \in {"compare", "done"}
AllVsAll == Matched /\ config.pairing = "AllVsAll"

\* the three blocking rules of the specification, stated on a pair
ExtensionRule(p) ==
    \/ p.file1.extension = p.file2.extension
    \/ \E g \in {text_exts, csv_exts, code_exts, config_exts} :
          p.file1.extension \in g /\ p.file2.extension \in g
SizeRule(p) ==
    (p.file1.size > 0 /\ p.file2.size > 0) =>
        10 * Min(p.file1.size, p.file2.size) >= Max(p.file1.size, p.file2.size)
BinaryRule(p) ==
    ~(p.file1.file_type = "Binary" /\ p.file2.file_type # "Binary")
    /\ ~(p.file1.file_type # "Binary" /\ p.file2.file_type = "Binary")

\* the files of the two roots that have the same relative path and content
SameRelSameContent ==
    {fg \in disk[root1] \X disk[root2] :
        fg[1].rel = fg[2].rel /\ fg[1].content = fg[2].content}

\* indices of the candidates that pair the given two paths
PairsOf(path1, path2) ==
    {i \in 1..Len(candidates) :
        candidates[i].file1.path = path1 /\ candidates[i].file2.path = path2}

\* C1: under SamePath, with two different roots, a text file that lies at the
\* same relative path under both roots with the same content (and was
\* fingerprinted on both sides) yields exactly one candidate pair, flagged
\* exact_hash_match, and its result is Text, identical, similarity 1.0.
C1_SamePathPairsRelativePaths ==
    (pc = "done" /\ config.pairing = "SamePath" /\ root1 # root2) =>
        \A fg \in SameRelSameContent :
            LET p1 == <<root1>> \o fg[1].rel
                p2 == <<root2>> \o fg[2].rel
                hashed == /\ \E i \in 1..Len(files1) :
                                files1[i].path = p1 /\ files1[i].content_hash # ""
                          /\ \E j \in 1..Len(files2) :
                                files2[j].path = p2 /\ files2[j].content_hash # ""
            IN hashed =>
                 /\ Cardinality(PairsOf(p1, p2)) = 1
                 /\ \A i \in PairsOf(p1, p2) :
                       /\ candidates[i].exact_hash_match
                       /\ results[i].type = "Text"
                       /\ results[i].identical
                       /\ results[i].similarity_score = One

\* C2 as claimed: every pair AllVsAll returns, from either pass, satisfies the
\* extension rule, the size rule and the Binary rule.
C2_EveryPairPassesBlocking ==
    AllVsAll =>
        \A i \in 1..Len(candidates) :
            /\ ExtensionRule(candidates[i])
            /\ SizeRule(candidates[i])
            /\ BinaryRule(candidates[i])

\* C2 amended: every pair of the similarity pass satisfies the three blocking
\* rules; a pair of the exact-hash pass is not tested against them: it
\* satisfies the size rule and the Binary rule (equal contents), and its
\* extensions may be incompatible.
C2_SimilarityPairsPassBlocking ==
    AllVsAll =>
        /\ \A i \in 1..Len(matcher.similar) :
              /\ ExtensionRule(matcher.similar[i])
              /\ SizeRule(matcher.similar[i])
              /\ BinaryRule(matcher.similar[i])
        /\ \A i \in 1..Len(candidates) :
              /\ SizeRule(candidates[i])
              /\ BinaryRule(candidates[i])
              /\ ~candidates[i].exact_hash_match => ExtensionRule(candidates[i])

\* C2 witness: AllVsAll returned a similarity pair next to an exact-hash pair
\* whose extensions are incompatible.
C2_Witness ==
    /\ AllVsAll
    /\ \E i \in 1..Len(candidates) : ~candidates[i].exact_hash_match
    /\ \E i \in 1..Len(candidates) :
          candidates[i].exact_hash_match /\ ~ExtensionRule(candidates[i])

\* number of candidates whose file1 is at the path
PairsFrom(path) ==
    Cardinality({i \in 1..Len(candidates) : candidates[i].file1.path = path})

\* C3 as claimed: at most top_k pairs share a file1 path, for every top_k.
C3_AtMostTopKPerFile1 ==
    AllVsAll =>
        \A i \in 1..Len(files1) : PairsFrom(files1[i].path) <= config.top_k

\* C3 amended: a side-1 file of an exact-hash pair has that one pair, whatever
\* top_k is (also top_k = 0); every other side-1 file has at most top_k pairs;
\* with no hash matches the output has at most top_k * |files1| pairs.
C3_TopKPerUnmatchedFile1 ==
    AllVsAll =>
        /\ \A i \in 1..Len(files1) :
              IF files1[i].path \in matcher.matched_in_set1
              THEN PairsFrom(files1[i].path) <= 1
              ELSE PairsFrom(files1[i].path) <= config.top_k
        /\ matcher.exact = <<>> =>
              Len(candidates) <= config.top_k * Len(files1)

\* C3 witness: top_k = 0 and an exact-hash pair is returned, while another
\* side-1 file with eligible partners gets none.
C3_Witness ==
    /\ AllVsAll
    /\ config.top_k = 0
    /\ config.max_pairs = None
    /\ Len(candidates) > 0
    /\ \E i \in 1..Len(files1) :
          /\ files1[i].path \notin matcher.matched_in_set1
          /\ \E j \in 1..Len(files2) :
                /\ files2[j].path \notin matcher.matched_in_set2
                /\ passes_blocking_rules(files1[i], files2[j])

\* index in fs of the entry at the path (the paths of one side are distinct)
IndexOf(fs, path) == CHOOSE i \in 1..Len(fs) : fs[i].path = path

\* indices of the exact-hash pairs whose file1 is at the path
ExactFrom(path) ==
    {k \in 1..Len(matcher.exact) : matcher.exact[k].file1.path = path}

\* side-2 paths taken by the exact-hash pairs of side-1 entries before index i
ConsumedBefore(i) ==
    {matcher.exact[k].file2.path :
        k \in {n \in 1..Len(matcher.exact) :
                  IndexOf(files1, matcher.exact[n].file1.path) < i}}

\* side-2 indices still free for side-1 entry i: same non-empty hash, not
\* taken by an earlier side-1 entry
FreeFor(i) ==
    {j \in 1..Len(files2) :
        /\ files1[i].content_hash # ""
        /\ files2[j].content_hash = files1[i].content_hash
        /\ files2[j].path \notin ConsumedBefore(i)}

\* C4: the exact-hash pass is a 1-to-1 greedy matching. In side-1 order, an
\* entry with a free same-hash side-2 entry is paired with the first such
\* entry in side-2 order and an entry without one is not paired; no entry of
\* either side is in two exact-hash pairs; every exact-hash pair has
\* exact_hash_match = true and estimated_similarity = 1.0.
C4_ExactHashPassGreedy ==
    AllVsAll =>
        /\ \A i \in 1..Len(files1) :
              IF FreeFor(i) = {}
              THEN ExactFrom(files1[i].path) = {}
              ELSE /\ Cardinality(ExactFrom(files1[i].path)) = 1
                   /\ \A k \in ExactFrom(files1[i].path) :
                         matcher.exact[k].file2 =
                             files2[CHOOSE j \in FreeFor(i) :
                                       \A o \in FreeFor(i) : j <= o]
        /\ \A k, n \in 1..Len(matcher.exact) :
              k # n => /\ matcher.exact[k].file1.path # matcher.exact[n].file1.path
                       /\ matcher.exact[k].file2.path # matcher.exact[n].file2.path
        /\ \A k, n \in 1..Len(matcher.exact) :
              k < n => IndexOf(files1, matcher.exact[k].file1.path)
                         < IndexOf(files1, matcher.exact[n].file1.path)
        /\ \A k \in 1..Len(matcher.exact) :
              /\ matcher.exact[k].exact_hash_match
              /\ matcher.exact[k].estimated_similarity = One
              /\ matcher.exact[k].file1.content_hash # ""
              /\ matcher.exact[k].file1.content_hash
                    = matcher.exact[k].file2.content_hash

\* C4 witness: two side-1 entries with the same hash took two different
\* side-2 entries: the second skipped the entry the first had consumed.
C4_Witness ==
    /\ AllVsAll
    /\ \E k, n \in 1..Len(matcher.exact) :
          /\ k < n
          /\ matcher.exact[k].file1.content_hash
                = matcher.exact[n].file1.content_hash
          /\ IndexOf(files2, matcher.exact[k].file2.path)
                < IndexOf(files2, matcher.exact[n].file2.path)

\* C5: no file of an exact-hash pair, on either side, occurs in a pair of the
\* similarity pass.
C5_SimilarityPassOnResidue ==
    AllVsAll =>
        \A k \in 1..Len(matcher.exact), n \in 1..Len(matcher.similar) :
            /\ matcher.similar[n].file1.path # matcher.exact[k].file1.path
            /\ matcher.similar[n].file2.path # matcher.exact[k].file2.path

\* C5 witness: both passes emitted pairs, and a side-2 file consumed by the
\* exact-hash pass would have passed the blocking rules for the side-1 file
\* of a similarity pair.
C5_Witness ==
    /\ AllVsAll
    /\ \E k \in 1..Len(matcher.exact), n \in 1..Len(matcher.similar) :
          passes_blocking_rules(matcher.similar[n].file1, matcher.exact[k].file2)

\* the side-2 indices eligible for a side-1 entry in the similarity pass
Eligible(f1) ==
    {j \in 1..Len(files2) :
        /\ files2[j].path \notin matcher.matched_in_set2
        /\ passes_blocking_rules(f1, files2[j])}

\* the side-2 indices kept for a side-1 entry, in the order emitted
KeptSeq(f1) ==
    LET ks == FilterSeq(matcher.similar,
                        {n \in 1..Len(matcher.similar) :
                            matcher.similar[n].file1.path = f1.path})
    IN [n \in 1..Len(ks) |-> IndexOf(files2, ks[n].file2.path)]

\* side-2 entry a ranks before side-2 entry b for f1: higher estimate, or the
\* same estimate and earlier in side-2 order
RanksBefore(f1, a, b) ==
    \/ RatLess(estimate_similarity(f1, files2[b]), estimate_similarity(f1, files2[a]))
    \/ /\ estimate_similarity(f1, files2[b]) = estimate_similarity(f1, files2[a])
       /\ a < b

\* C6: for each unmatched side-1 entry the similarity pass keeps
\* min(top_k, eligible) eligible side-2 entries, each with its estimate, in
\* rank order, and every eligible entry left out ranks after every kept one
\* (lower estimate, or equal estimate and later in side-2 order).
C6_TopKByEstimate ==
    AllVsAll =>
        \A i \in 1..Len(files1) :
            LET f1 == files1[i]
                kept == KeptSeq(f1)
            IN IF f1.path \in matcher.matched_in_set1 THEN Len(kept) = 0
               ELSE /\ Len(kept) = Min(config.top_k, Cardinality(Eligible(f1)))
                    /\ Range(kept) \subseteq Eligible(f1)
                    /\ \A a, b \in 1..Len(kept) :
                          a < b => RanksBefore(f1, kept[a], kept[b])
                    /\ \A e \in Eligible(f1) \ Range(kept) :
                          \A a \in 1..Len(kept) : RanksBefore(f1, kept[a], e)
                    /\ \A n \in 1..Len(matcher.similar) :
                          matcher.similar[n].file1.path = f1.path =>
                             /\ matcher.similar[n].estimated_similarity
                                   = estimate_similarity(f1, matcher.similar[n].file2)
                             /\ ~matcher.similar[n].exact_hash_match

\* C6 witness: an eligible entry was left out although its estimate equals
\* that of a kept entry, and another kept entry has a higher estimate.
C6_Witness ==
    /\ AllVsAll
    /\ \E i \in 1..Len(files1) :
          LET f1 == files1[i]
              kept == KeptSeq(f1)
          IN /\ f1.path \notin matcher.matched_in_set1
             /\ Len(kept) = 2
             /\ estimate_similarity(f1, files2[kept[1]])
                   # estimate_similarity(f1, files2[kept[2]])
             /\ \E e \in Eligible(f1) \ Range(kept) :
                   estimate_similarity(f1, files2[e])
                      = estimate_similarity(f1, files2[kept[2]])

\* the pairs of both passes in the order they were pushed
Emitted == matcher.exact \o matcher.similar

\* position in Emitted of a pair (the pairs of one run are distinct)
EmittedAt(p) == CHOOSE n \in 1..Len(Emitted) : Emitted[n] = p

\* pair a sorts before pair b: higher estimate, or equal estimate and pushed
\* earlier
SortsBefore(a, b) ==
    \/ RatLess(b.estimated_similarity, a.estimated_similarity)
    \/ /\ a.estimated_similarity = b.estimated_similarity
       /\ EmittedAt(a) < EmittedAt(b)

\* C7: the AllVsAll output holds pairs of the two passes, each once, sorted by
\* estimate descending with equal estimates in emission order; with
\* max_pairs = m it has min(m, emitted) pairs and every pair cut off sorts
\* after every pair kept; without max_pairs it has every emitted pair.
C7_SortedStableAndCapped ==
    AllVsAll =>
        /\ Range(candidates) \subseteq Range(Emitted)
        /\ \A a, b \in 1..Len(candidates) :
              a < b => SortsBefore(candidates[a], candidates[b])
        /\ \A a, b \in 1..Len(candidates) :
              a < b => ~RatLess(candidates[a].estimated_similarity,
                                candidates[b].estimated_similarity)
        /\ Len(candidates) =
              IF IsSome(config.max_pairs)
              THEN Min(Unwrap(config.max_pairs), Len(Emitted))
              ELSE Len(Emitted)
        /\ \A n \in 1..Len(Emitted) :
              Emitted[n] \notin Range(candidates) =>
                 \A a \in 1..Len(candidates) : SortsBefore(candidates[a], Emitted[n])

\* C7 witness: max_pairs cut a pair that ties with a kept pair, and the sort
\* moved a similarity pair in front of a later-pushed pair of lower estimate.
C7_Witness ==
    /\ AllVsAll
    /\ IsSome(config.max_pairs)
    /\ Len(candidates) = 1
    /\ Len(Emitted) >= 3
    /\ EmittedAt(candidates[1]) > 1
    /\ \E n \in 1..Len(Emitted) :
          /\ Emitted[n] \notin Range(candidates)
          /\ Emitted[n].estimated_similarity = candidates[1].estimated_similarity

\* side-2 indices with the basename of the side-1 entry
SameNameAs(f1) ==
    {j \in 1..Len(files2) : FileName(files2[j].path) = FileName(f1.path)}

\* the same-name side-2 index with the highest estimate, the first in side-2
\* order among those that tie
FirstBest(f1) ==
    CHOOSE j \in SameNameAs(f1) :
        \A o \in SameNameAs(f1) \ {j} :
            \/ RatLess(estimate_similarity(f1, files2[o]),
                       estimate_similarity(f1, files2[j]))
            \/ /\ estimate_similarity(f1, files2[o]) = estimate_similarity(f1, files2[j])
               /\ j < o

\* side-1 indices with at least one same-name side-2 entry, ascending
NamedIn2 ==
    FilterSeq([i \in 1..Len(files1) |-> i],
              {i \in 1..Len(files1) : SameNameAs(files1[i]) # {}})

\* C8: SameName emits one pair per side-1 entry that has a same-basename
\* side-2 entry, in side-1 order, with the same-basename entry of highest
\* estimate; among entries that tie for the highest estimate the first in
\* side-2 order is chosen.
C8_SameNamePicksFirstBest ==
    (Matched /\ config.pairing = "SameName") =>
        /\ Len(candidates) = Len(NamedIn2)
        /\ \A n \in 1..Len(candidates) :
              /\ n <= Len(NamedIn2)
              /\ candidates[n].file1 = files1[NamedIn2[n]]
              /\ candidates[n].file2 = files2[FirstBest(files1[NamedIn2[n]])]

\* the result a pair gets when every read of the stage succeeds
Undisturbed(i) == compare_pair(candidates[i], config, {})

\* the comparator of pair i ran and failed
Failed(i) ==
    /\ ~candidates[i].exact_hash_match
    /\ (candidates[i].file1.path \in unreadable
          \/ candidates[i].file2.path \in unreadable)

\* C9: the comparison stage returns one result per candidate, in candidate
\* order; a pair whose comparator fails gets an Error result with both paths
\* and a message; every other pair gets the result it gets when no read fails.
C9_OneResultPerPair ==
    pc = "done" =>
        /\ Len(results) = Len(candidates)
        /\ \A i \in 1..Len(candidates) :
              /\ i <= Len(results)
              /\ results[i].file1_path = Display(candidates[i].file1.path)
              /\ results[i].file2_path = Display(candidates[i].file2.path)
              /\ IF Failed(i)
                 THEN /\ results[i].type = "Error"
                      /\ results[i].error # ""
                 ELSE /\ results[i].type # "Error"
                      /\ results[i] = Undisturbed(i)

\* C9 witness: one comparator failed, and pairs before and after it in the
\* vector have their results.
C9_Witness ==
    /\ pc = "done"
    /\ Len(results) >= 3
    /\ \E i \in 2..(Len(results) - 1) :
          /\ results[i].type = "Error"
          /\ results[i - 1].type # "Error"
          /\ results[i + 1].type # "Error"

\* ComparisonResult::similarity_score
similarity_score(r) ==
    CASE r.type \in {"Text", "Structured"} -> r.similarity_score
      [] r.type = "HashOnly" -> IF r.identical THEN One ELSE Zero
      [] OTHER -> Zero

\* C10: a pair with exact_hash_match = true gets, for every mode and whether
\* or not its files can be read, an identical result of similarity 1.0:
\* HashOnly for Binary files, Structured with no mismatch, no one-sided key
\* or column and the column list of file1 when both are Csv/Tsv, Text with
\* no one-sided line and no differing position otherwise.
C10_ExactHashShortcut ==
    pc = "done" =>
        \A i \in 1..Len(candidates) :
            candidates[i].exact_hash_match =>
                LET f1 == candidates[i].file1
                    f2 == candidates[i].file2
                    r == results[i]
                IN /\ r.identical
                   /\ similarity_score(r) = One
                   /\ r.file1_path = Display(f1.path)
                   /\ r.file2_path = Display(f2.path)
                   /\ IF f1.file_type = "Binary" /\ f2.file_type = "Binary"
                      THEN r.type = "HashOnly"
                      ELSE IF is_structured(f1.file_type) /\ is_structured(f2.file_type)
                      THEN /\ r.type = "Structured"
                           /\ r.total_field_mismatches = 0
                           /\ r.field_mismatches = <<>>
                           /\ r.only_in_file1 = 0
                           /\ r.only_in_file2 = 0
                           /\ r.columns_only_in_file1 = <<>>
                           /\ r.columns_only_in_file2 = <<>>
                           /\ r.common_columns = Unwrap(f1.columns)
                      ELSE /\ r.type = "Text"
                           /\ r.only_in_file1 = 0
                           /\ r.only_in_file2 = 0
                           /\ r.different_positions = <<>>

\* C10 witness: an exact-hash pair one of whose files cannot be read in the
\* comparison stage, under a forced mode.
C10_Witness ==
    /\ pc = "done"
    /\ config.mode = "Structured"
    /\ \E i \in 1..Len(candidates) :
          /\ candidates[i].exact_hash_match
          /\ candidates[i].file2.path \in unreadable
          /\ results[i].type = "Text"

-----------------------------------------------------------------------------
(* C15: the entries after compute_fingerprints *)

Fingerprinted == pc \in {"match", "compare", "done"}

\* the entries of both sets
AllEntries == Range(files1) \cup Range(files2)

\* the entry is as index_single_file built it: its read failed
LeftAsIndexed(e) ==
    e.content_hash = "" /\ e.simhash = None /\ e.schema_signature = None

\* C15 (as claimed): after compute_fingerprints, whatever the reads did, every
\* entry has a non-empty content_hash, every Csv/Tsv entry has
\* schema_signature and columns set, and every Binary entry has no simhash.
C15_FingerprintedEntriesComplete ==
    Fingerprinted =>
        \A e \in AllEntries :
            /\ e.content_hash # ""
            /\ is_structured(e.file_type) =>
                   IsSome(e.schema_signature) /\ IsSome(e.columns)
            /\ e.file_type = "Binary" => e.simhash = None

\* C15 (amended): after compute_fingerprints every entry either has a
\* non-empty content_hash or is exactly as the indexer left it (empty hash,
\* no simhash, no schema signature); every Csv/Tsv entry has columns set, and
\* schema_signature set when its content_hash is non-empty; every Binary
\* entry has no simhash.
C15_FingerprintedUnlessReadFailed ==
    Fingerprinted =>
        \A e \in AllEntries :
            /\ e.content_hash # "" \/ LeftAsIndexed(e)
            /\ e.content_hash # "" =>
                   e.content_hash = FileAt(e.path).content.id
            /\ is_structured(e.file_type) =>
                   /\ IsSome(e.columns)
                   /\ e.content_hash # "" => IsSome(e.schema_signature)
            /\ e.file_type = "Binary" => e.simhash = None

\* a read failed while another table and a binary file were fingerprinted
C15_Witness ==
    /\ Fingerprinted
    /\ \E e \in AllEntries : LeftAsIndexed(e)
    /\ \E e \in AllEntries :
          is_structured(e.file_type) /\ IsSome(e.schema_signature)
    /\ \E e \in AllEntries : e.file_type = "Binary" /\ e.content_hash # ""

-----------------------------------------------------------------------------
(* SpecCalls: one function at a time, on inputs drawn from bounded sets *)

\* the sequences over S of length at most n
SeqsUpTo(S, n) == UNION {[1..k -> S] : k \in 0..n}

\* the pipeline is not running
PipelineIdle ==
    /\ root1 = "d1"
    /\ root2 = "d1"
    /\ config = [mode |-> "Auto", pairing |-> "AllVsAll", top_k |-> 0,
                 max_pairs |-> None]
    /\ pc = "call"
    /\ files1 = <<>>
    /\ files2 = <<>>
    /\ matcher = NoMatcher
    /\ candidates = <<>>
    /\ unreadable = {}
    /\ results = <<>>

PipelineVars == <<root1, root2, disk, config, pc, files1, files2, matcher,
                  candidates, unreadable, results>>

\* files have at most this many lines
MaxFileLines == 2

\* first lines the indexer may meet: empty, three comma fields, one field,
\* two tab fields, an empty field, padded fields, blanks only
ProbeLines ==
    { <<>>,
      <<"a", ",", "b", ",", "c">>,
      <<"a">>,
      <<"a", "\t", "b">>,
      <<",", "a">>,
      <<" ", "a", " ", ",", "b", " ">>,
      <<" ">> }

ProbeExtensions == {"csv", "tsv", "tab", "txt"}

\* the calls of detect_file_type
DetectCalls ==
    [fn : {"detect_file_type"},
     content : [lines : SeqsUpTo(ProbeLines, MaxFileLines), nul : BOOLEAN],
     extension : ProbeExtensions]

\* detect_file_type(path, extension) returns
DetectFileType ==
    /\ call.fn = "detect_file_type"
    /\ ret = None
    /\ ret' = Some(detect_file_type(call.content, call.extension))
    /\ UNCHANGED <<call, PipelineVars>>
-----------------------------------------------------------------------------
(* C16: the kind the indexer decides *)

\* the number of fields the line splits into on the delimiter
FieldCount(line, d) ==
    1 + Cardinality({i \in 1..Len(line) : line[i] = d})

\* the trimmed fields of the line
Fields(line, d) == LET parts == Split(line, d)
                   IN [i \in 1..Len(parts) |-> Trim(parts[i])]

\* rules 1-5 of the type detection, applied to a header line
KindByRules(header, extension) ==
    LET named(d) == FieldCount(header, d) >= 2
        looks(d) == named(d) /\ \A i \in 1..Len(Fields(header, d)) :
                                    Fields(header, d)[i] # <<>>
    IN
    IF extension = "csv" /\ named(",")
        THEN <<"Csv", Some(Fields(header, ","))>>
    ELSE IF extension \in {"tsv", "tab"} /\ named("\t")
        THEN <<"Tsv", Some(Fields(header, "\t"))>>
    ELSE IF looks(",") THEN <<"Csv", Some(Fields(header, ","))>>
    ELSE IF looks("\t") THEN <<"Tsv", Some(Fields(header, "\t"))>>
    ELSE <<"Text", None>>

\* the first line of the file that is not blank, trimmed; empty if none
FirstNonEmptyLine(lines) ==
    LET full == {i \in 1..Len(lines) : Trim(lines[i]) # <<>>}
    IN IF full = {} THEN <<>>
       ELSE Trim(lines[CHOOSE i \in full : \A j \in full : i <= j])

\* the first line of the file, trimmed; empty if the file has no line
FirstLine(lines) == IF Len(lines) = 0 THEN <<>> ELSE Trim(lines[1])

Detected == call.fn = "detect_file_type" /\ IsSome(ret)

\* what C16 says of every entry, whichever line is the header line
ColumnsFitKind ==
    LET kind == Unwrap(ret)[1]
        columns == Unwrap(ret)[3]
    IN /\ kind \in {"Csv", "Tsv"} => IsSome(columns) /\ Len(Unwrap(columns)) >= 2
       /\ kind \notin {"Csv", "Tsv"} => columns = None

-----------------------------------------------------------------------------
(* fingerprint.rs: normalization. A line is a sequence of characters. *)

\* NormalizationOptions: the four switches that change a line
NormalizationOptions ==
    [ignore_trailing_ws : BOOLEAN, ignore_all_ws : BOOLEAN,
     ignore_case : BOOLEAN, skip_empty_lines : BOOLEAN]

RECURSIVE SplitWhitespaceFrom(_, _)
\* str::split_whitespace: the maximal runs of non-whitespace characters
SplitWhitespaceFrom(l, cur) ==
    IF Len(l) = 0 THEN (IF Len(cur) = 0 THEN <<>> ELSE <<cur>>)
    ELSE IF l[1] \in Whitespace
         THEN (IF Len(cur) = 0 THEN <<>> ELSE <<cur>>)
                  \o SplitWhitespaceFrom(Tail(l), <<>>)
    ELSE SplitWhitespaceFrom(Tail(l), Append(cur, l[1]))

SplitWhitespace(l) == SplitWhitespaceFrom(l, <<>>)

\* char::to_lowercase on the letters that occur in the lines
LowerChar(c) == CASE c = "Y" -> "y"
                  [] c = "X" -> "x"
                  [] OTHER   -> c

\* str::to_lowercase
ToLowercase(l) == [i \in 1..Len(l) |-> LowerChar(l[i])]

\* the three rewriting switches, in the order both routines apply them
NormalizeLine(line, opts) ==
    LET s1 == IF opts.ignore_trailing_ws THEN TrimEnd(line) ELSE line
        s2 == IF opts.ignore_all_ws THEN Join(SplitWhitespace(s1), " ") ELSE s1
    IN IF opts.ignore_case THEN ToLowercase(s2) ELSE s2

\* normalize_text: map every line, then filter on !line.trim().is_empty()
normalize_text(lines, opts) ==
    LET mapped == [i \in 1..Len(lines) |-> NormalizeLine(lines[i], opts)]
    IN FilterSeq(mapped, {i \in 1..Len(mapped) :
                              opts.skip_empty_lines => Len(Trim(mapped[i])) > 0})

RECURSIVE read_normalized_lines_empty_only(_, _)
\* read_normalized_lines skipping a line only when it is the empty string
read_normalized_lines_empty_only(lines, normalization) ==
    IF Len(lines) = 0 THEN <<>>
    ELSE LET s == NormalizeLine(lines[1], normalization)
             rest == read_normalized_lines_empty_only(Tail(lines), normalization)
         IN IF normalization.skip_empty_lines /\ Len(s) = 0
            THEN rest
            ELSE <<s>> \o rest

RECURSIVE read_normalized_lines(_, _)
\* read_normalized_lines: the loop over reader.lines(), `continue` on a line
\* that is blank after the switches when skip_empty_lines is set
read_normalized_lines(lines, normalization) ==
    IF Len(lines) = 0 THEN <<>>
    ELSE LET s == NormalizeLine(lines[1], normalization)
             rest == read_normalized_lines(Tail(lines), normalization)
         IN IF normalization.skip_empty_lines /\ Len(Trim(s)) = 0
            THEN rest
            ELSE <<s>> \o rest

-----------------------------------------------------------------------------
(* compare_text.rs. A text is a sequence of characters. *)

\* f64 arithmetic on the fractions the comparators build
RatAdd(a, b) == Rat(a[1] * b[2] + b[1] * a[2], a[2] * b[2])
RatSub(a, b) == Rat(a[1] * b[2] - b[1] * a[2], a[2] * b[2])
RatMul(a, b) == Rat(a[1] * b[1], a[2] * b[2])

RECURSIVE TokenizeFrom(_, _)
\* similar's tokenize_lines: a token ends after "\n", "\r\n" or "\r" and keeps
\* its terminator; the last token has none when the text does not end with one
TokenizeFrom(text, cur) ==
    IF Len(text) = 0 THEN (IF Len(cur) = 0 THEN <<>> ELSE <<cur>>)
    ELSE IF text[1] = "\r" /\ Len(text) >= 2 /\ text[2] = "\n"
         THEN <<cur \o <<"\r", "\n">> >> \o TokenizeFrom(SubSeq(text, 3, Len(text)), <<>>)
    ELSE IF text[1] \in {"\r", "\n"}
         THEN <<Append(cur, text[1])>> \o TokenizeFrom(Tail(text), <<>>)
    ELSE TokenizeFrom(Tail(text), Append(cur, text[1]))

tokenize_lines(text) == TokenizeFrom(text, <<>>)

RECURSIVE LcsLen(_, _)
\* the length of a longest common subsequence
LcsLen(a, b) ==
    IF Len(a) = 0 \/ Len(b) = 0 THEN 0
    ELSE IF a[1] = b[1] THEN 1 + LcsLen(Tail(a), Tail(b))
    ELSE Max(LcsLen(Tail(a), b), LcsLen(a, Tail(b)))

Change(tag, value) == [tag |-> tag, value |-> value]

RECURSIVE DiffChanges(_, _)
\* TextDiff::iter_all_changes: a shortest edit script (Myers), removals before
\* additions between two kept tokens. Where several shortest scripts exist
\* this is one of them; the three counts are the same in all of them.
DiffChanges(a, b) ==
    IF Len(a) = 0 THEN [i \in 1..Len(b) |-> Change("Insert", b[i])]
    ELSE IF Len(b) = 0 THEN [i \in 1..Len(a) |-> Change("Delete", a[i])]
    ELSE IF a[1] = b[1]
         THEN <<Change("Equal", a[1])>> \o DiffChanges(Tail(a), Tail(b))
    ELSE IF LcsLen(Tail(a), b) >= LcsLen(a, Tail(b))
         THEN <<Change("Delete", a[1])>> \o DiffChanges(Tail(a), b)
    ELSE <<Change("Insert", b[1])>> \o DiffChanges(a, Tail(b))

\* TextDiff::from_lines(text1, text2).iter_all_changes()
from_lines(text1, text2) ==
    DiffChanges(tokenize_lines(text1), tokenize_lines(text2))

\* usize::to_string, for the numbers that occur in a diff
Digits == <<"0", "1", "2", "3", "4", "5", "6", "7", "8", "9">>
RECURSIVE to_string(_)
to_string(n) ==
    IF n < 10 THEN <<Digits[n + 1]>>
    ELSE Append(to_string(n \div 10), Digits[(n % 10) + 1])

\* str::ends_with('\n')
EndsWithNewline(s) == Len(s) > 0 /\ s[Len(s)] = "\n"

\* the line written for a change: prefix, value, and "\n" unless the value
\* ends with one
ChangeLine(prefix, value) ==
    <<prefix>> \o value \o (IF EndsWithNewline(value) THEN <<>> ELSE <<"\n">>)

\* the context radius of the unified diff
context_radius == 3

\* the changes a hunk shows: those within context_radius of a removal or an
\* addition (similar's group_diff_ops)
Shown(changes) ==
    {i \in 1..Len(changes) :
        \E j \in 1..Len(changes) :
            /\ changes[j].tag # "Equal"
            /\ i - j <= context_radius
            /\ j - i <= context_radius}

\* the hunks: the maximal runs of shown changes, as <<first, last>>, in order
Hunks(changes) ==
    LET shown == Shown(changes)
        firsts == {i \in shown : i - 1 \notin shown}
        last(i) == CHOOSE k \in shown :
                       /\ k >= i
                       /\ \A m \in i..k : m \in shown
                       /\ k + 1 \notin shown
        RECURSIVE InOrder(_)
        InOrder(S) == IF S = {} THEN <<>>
                      ELSE LET f == CHOOSE i \in S : \A o \in S : i <= o
                           IN <<<<f, last(f)>>>> \o InOrder(S \ {f})
    IN InOrder(firsts)

\* UnifiedDiffHunkRange as it is displayed: "start" for one line,
\* "start,len" otherwise, start counted from 1 (from 0 for an empty range)
HunkRange(start, len) ==
    IF len = 1 THEN to_string(start + 1)
    ELSE to_string(IF len = 0 THEN start ELSE start + 1) \o <<",">> \o to_string(len)

\* hunk.header(): "@@ -old +new @@" for the hunk changes[first..last]
HunkHeader(changes, first, last) ==
    LET old(S) == Cardinality({i \in S : changes[i].tag \in {"Equal", "Delete"}})
        new(S) == Cardinality({i \in S : changes[i].tag \in {"Equal", "Insert"}})
    IN <<"@", "@", " ", "-">> \o HunkRange(old(1..(first - 1)), old(first..last))
         \o <<" ", "+">> \o HunkRange(new(1..(first - 1)), new(first..last))
         \o <<" ", "@", "@">>

\* the prefix of a change in the unified diff
Prefix(tag) == CASE tag = "Delete" -> "-"
                 [] tag = "Insert" -> "+"
                 [] tag = "Equal"  -> " "

\* what generate_unified_diff writes after the file header when nothing stops
\* it, piece by piece: per hunk its header line, then one line per change.
\* The test `output.len() >= max_bytes` stands before every piece.
Pieces(changes) ==
    LET hunks == Hunks(changes)
        ofHunk(h) ==
            <<HunkHeader(changes, h[1], h[2]) \o <<"\n">> >>
              \o [k \in 1..(h[2] - h[1] + 1) |->
                    ChangeLine(Prefix(changes[h[1] + k - 1].tag),
                               changes[h[1] + k - 1].value)]
    IN ConcatAll([n \in 1..Len(hunks) |-> ofHunk(hunks[n])])

\* the literal appended when the diff was cut
TruncationMarker ==
    <<"\n", ".", ".", ".", " ", "[", "d", "i", "f", "f", " ", "t", "r", "u",
      "n", "c", "a", "t", "e", "d", "]", " ", ".", ".", ".", "\n">>

RECURSIVE WritePieces(_, _, _)
\* the two loops of generate_unified_diff: <<output, truncated>> before the
\* marker is appended. Once a test fails nothing more is written: the inner
\* `break` is followed by the same test of the outer loop.
WritePieces(output, pieces, max_bytes) ==
    IF Len(pieces) = 0 THEN <<output, FALSE>>
    ELSE IF Len(output) >= max_bytes THEN <<output, TRUE>>
    ELSE WritePieces(output \o pieces[1], Tail(pieces), max_bytes)

\* generate_unified_diff: <<output, truncated>>
generate_unified_diff(file1_name, file2_name, text1, text2, max_bytes) ==
    LET header == <<"-", "-", "-", " ">> \o file1_name \o <<"\n">>
                    \o <<"+", "+", "+", " ">> \o file2_name \o <<"\n">>
        written == WritePieces(header, Pieces(from_lines(text1, text2)), max_bytes)
    IN IF written[2] THEN <<written[1] \o TruncationMarker, TRUE>>
       ELSE written

RECURSIVE EncodeFrom(_, _, _)
\* the loop of encode_ranges: the ranges still to be pushed, start..end open
EncodeFrom(positions, start, end) ==
    LET range == IF start = end THEN to_string(start)
                 ELSE to_string(start) \o <<"-">> \o to_string(end)
    IN IF Len(positions) = 0 THEN <<range>>
       ELSE IF positions[1] = end + 1
            THEN EncodeFrom(Tail(positions), start, positions[1])
       ELSE <<range>> \o EncodeFrom(Tail(positions), positions[1], positions[1])

\* encode_ranges writing every position on its own
encode_ranges_no_runs(positions) ==
    Join([n \in 1..Len(positions) |-> to_string(positions[n])], ",")

\* encode_ranges: "1-3,5,7-9"
encode_ranges(positions) ==
    IF Len(positions) = 0 THEN <<>>
    ELSE Join(EncodeFrom(Tail(positions), positions[1], positions[1]), ",")

RECURSIVE JaroMatch(_, _, _, _, _)
\* the matching loop of strsim's jaro from index i of a on: <<a_flags, b_flags>>,
\* each character of a taking the first free equal character of b in its window
JaroMatch(a, b, i, a_flags, b_flags) ==
    IF i > Len(a) THEN <<a_flags, b_flags>>
    ELSE LET search_range == Max((Max(Len(a), Len(b)) \div 2) - 1, 0)
             window == {j \in 1..Len(b) :
                          /\ j >= i - search_range
                          /\ j <= i + search_range
                          /\ a[i] = b[j]
                          /\ j \notin b_flags}
         IN IF window = {} THEN JaroMatch(a, b, i + 1, a_flags, b_flags)
            ELSE LET j == CHOOSE k \in window : \A o \in window : k <= o
                 IN JaroMatch(a, b, i + 1, a_flags \cup {i}, b_flags \cup {j})

\* jaro scoring two empty strings 0
jaro_empty_is_zero(a, b) ==
    IF Len(a) = 0 \/ Len(b) = 0 THEN Zero
    ELSE LET flags == JaroMatch(a, b, 1, {}, {})
             ma == FilterSeq(a, flags[1])
             mb == FilterSeq(b, flags[2])
             matches == Len(ma)
             transpositions ==
                 Cardinality({k \in 1..matches : ma[k] # mb[k]}) \div 2
         IN IF matches = 0 THEN Zero
            ELSE RatMul(RatAdd(RatAdd(Rat(matches, Len(a)), Rat(matches, Len(b))),
                               Rat(matches - transpositions, matches)),
                        <<1, 3>>)

\* strsim::jaro
jaro(a, b) ==
    IF Len(a) = 0 /\ Len(b) = 0 THEN One
    ELSE IF Len(a) = 0 \/ Len(b) = 0 THEN Zero
    ELSE LET flags == JaroMatch(a, b, 1, {}, {})
             ma == FilterSeq(a, flags[1])
             mb == FilterSeq(b, flags[2])
             matches == Len(ma)
             transpositions ==
                 Cardinality({k \in 1..matches : ma[k] # mb[k]}) \div 2
         IN IF matches = 0 THEN Zero
            ELSE RatMul(RatAdd(RatAdd(Rat(matches, Len(a)), Rat(matches, Len(b))),
                               Rat(matches - transpositions, matches)),
                        <<1, 3>>)

\* strsim::jaro_winkler: above 0.7 the common prefix, up to 4 characters,
\* raises the score by 0.1 per character of what is missing to 1
jaro_winkler(a, b) ==
    LET sim == jaro(a, b)
        same == {k \in 1..Min(4, Min(Len(a), Len(b))) :
                    \A m \in 1..k : a[m] = b[m]}
        prefix_length == Cardinality(same)
    IN IF RatLess(<<7, 10>>, sim)
       THEN RatAdd(sim, RatMul(<<prefix_length, 10>>, RatSub(One, sim)))
       ELSE sim

RECURSIVE DiffLoop(_, _, _, _, _)
\* the part of the loop of compare_text_files that builds the detailed diff
\* from the removals and additions: <<detailed_diff, diff_truncated>>
DiffLoop(changes, detailed_diff, diff_bytes, diff_truncated, max_diff_bytes) ==
    IF Len(changes) = 0 THEN <<detailed_diff, diff_truncated>>
    ELSE IF changes[1].tag = "Equal"
         THEN DiffLoop(Tail(changes), detailed_diff, diff_bytes, diff_truncated,
                       max_diff_bytes)
    ELSE IF diff_bytes < max_diff_bytes
         THEN LET line == <<Prefix(changes[1].tag)>> \o changes[1].value
              IN DiffLoop(Tail(changes),
                          detailed_diff \o line
                              \o (IF EndsWithNewline(line) THEN <<>> ELSE <<"\n">>),
                          diff_bytes + Len(line), diff_truncated, max_diff_bytes)
    ELSE DiffLoop(Tail(changes), detailed_diff, diff_bytes, TRUE, max_diff_bytes)

SimilarityAlgorithms == {"Diff", "CharJaro"}

\* compare_text_files on two files that can be read; lines: the lines
\* reader.lines() yields
compare_text_files(file1, file2, cfg) ==
    LET lines1 == read_normalized_lines(file1.lines, cfg.normalization)
        lines2 == read_normalized_lines(file2.lines, cfg.normalization)
        text1 == Join(lines1, "\n")
        text2 == Join(lines2, "\n")
        diff == from_lines(text1, text2)
        count(tag) == Cardinality({i \in 1..Len(diff) : diff[i].tag = tag})
        common_lines == count("Equal")
        only_in_file1 == count("Delete")
        only_in_file2 == count("Insert")
        different_positions ==
            FilterSeq([i \in 1..Len(diff) |-> i - 1],
                      {i \in 1..Len(diff) : diff[i].tag # "Equal"})
        loop == DiffLoop(diff, <<>>, 0, FALSE, cfg.max_diff_bytes)
        total == common_lines + only_in_file1 + only_in_file2
        similarity ==
            IF cfg.similarity_algorithm = "Diff"
            THEN (IF total > 0 THEN Rat(common_lines, total) ELSE One)
            ELSE jaro_winkler(text1, text2)
        unified_diff == generate_unified_diff(Display(file1.path), Display(file2.path),
                                              text1, text2, cfg.max_diff_bytes)
    IN [type |-> "Text",
        linked_id |-> linked_id_of(file1, file2),
        file1_path |-> Display(file1.path),
        file2_path |-> Display(file2.path),
        file1_line_count |-> Len(lines1),
        file2_line_count |-> Len(lines2),
        common_lines |-> common_lines,
        only_in_file1 |-> only_in_file1,
        only_in_file2 |-> only_in_file2,
        similarity_score |-> similarity,
        different_positions |-> encode_ranges(different_positions),
        detailed_diff |-> IF Len(unified_diff[1]) = 0 THEN loop[1]
                          ELSE unified_diff[1],
        diff_truncated |-> loop[2] \/ unified_diff[2],
        identical |-> only_in_file1 = 0 /\ only_in_file2 = 0]

\* the lines of the files compared as text
TextLines == { <<"y">>, <<"Y", " ">>, <<" ">> }

TextFiles == SeqsUpTo(TextLines, MaxFileLines)

\* max_diff_bytes: nothing allowed, one byte more than the two header lines
\* of the diff, room for everything
DiffByteLimits == {0, 13, 200}

\* the similarity algorithm does not read max_diff_bytes nor the diff the
\* algorithm: every limit under `diff`, the largest under `char-jaro`
TextConfigs ==
    {[normalization |-> n, similarity_algorithm |-> a[1], max_diff_bytes |-> a[2]] :
        n \in NormalizationOptions,
        a \in ({"Diff"} \X DiffByteLimits) \cup {<<"CharJaro", 200>>}}

\* the calls of compare_text_files; the content hash names the content
TextCalls ==
    {[fn |-> "compare_text_files",
      file1 |-> [path |-> <<"a">>, content_hash |-> "f1", lines |-> l1],
      file2 |-> [path |-> <<"b">>, lines |-> l2,
                 content_hash |-> IF l2 = l1 THEN "f1" ELSE "f2"],
      config |-> c] :
       l1 \in TextFiles, l2 \in TextFiles, c \in TextConfigs}

\* compare_text_files(file1, file2, config) returns
CompareTextFiles ==
    /\ call.fn = "compare_text_files"
    /\ ret = None
    /\ ret' = Some(compare_text_files(call.file1, call.file2, call.config))
    /\ UNCHANGED <<call, PipelineVars>>

-----------------------------------------------------------------------------
(* C12, C13, C14: the text comparator *)

TextCompared == call.fn = "compare_text_files" /\ IsSome(ret)

\* the normalized line sequences of the two files of the call
Lines1 == read_normalized_lines(call.file1.lines, call.config.normalization)
Lines2 == read_normalized_lines(call.file2.lines, call.config.normalization)

\* C12 (as claimed): common_lines, only_in_file1 and only_in_file2 are the
\* Equal, Delete and Insert counts of a line-level LCS diff of the two
\* normalized line sequences; under `diff` the similarity is
\* common / (common + only1 + only2), 1.0 when that sum is 0; a file against
\* itself with one line appended has only_in_file2 = 1 and only_in_file1 = 0.
C12_CountsOfLineDiff ==
    TextCompared =>
        LET r == Unwrap(ret)
            lcs == LcsLen(Lines1, Lines2)
            total == r.common_lines + r.only_in_file1 + r.only_in_file2
        IN /\ r.common_lines = lcs
           /\ r.only_in_file1 = Len(Lines1) - lcs
           /\ r.only_in_file2 = Len(Lines2) - lcs
           /\ call.config.similarity_algorithm = "Diff" =>
                  r.similarity_score =
                      IF total = 0 THEN One ELSE Rat(r.common_lines, total)
           /\ (Len(Lines2) = Len(Lines1) + 1
                 /\ SubSeq(Lines2, 1, Len(Lines1)) = Lines1) =>
                  r.only_in_file2 = 1 /\ r.only_in_file1 = 0

\* the two header lines every diff starts with
FileHeader ==
    <<"-", "-", "-", " ">> \o Display(call.file1.path) \o <<"\n">>
      \o <<"+", "+", "+", " ">> \o Display(call.file2.path) \o <<"\n">>

\* detailed_diff without the truncation marker
Unmarked ==
    LET d == Unwrap(ret).detailed_diff
        n == Len(d) - Len(TruncationMarker)
    IN IF n >= 0 /\ SubSeq(d, n + 1, Len(d)) = TruncationMarker
       THEN SubSeq(d, 1, n) ELSE d

\* the diff body: the hunks, between the two header lines and the marker
Body == SubSeq(Unmarked, Len(FileHeader) + 1, Len(Unmarked))

\* the diff in full: what max_diff_bytes = 200 lets through
FullDiff ==
    generate_unified_diff(Display(call.file1.path), Display(call.file2.path),
                          Join(Lines1, "\n"), Join(Lines2, "\n"), 200)[1]

\* C13 (as claimed): for every input and every max_diff_bytes, 0 included,
\* the diff body is never longer than max_diff_bytes (the two header lines
\* are not even counted here); the result is marked diff_truncated, with the
\* marker appended, exactly when something was cut.
C13_DiffBodyBounded ==
    TextCompared =>
        LET r == Unwrap(ret) IN
        /\ Len(Body) <= call.config.max_diff_bytes
        /\ r.diff_truncated <=> Unmarked # r.detailed_diff
        /\ r.diff_truncated <=> Unmarked # FullDiff

\* a line made of whitespace only (the empty line included)
IsBlank(line) == \A i \in 1..Len(line) : line[i] \in Whitespace

\* the number of lines of the file that satisfy keep
Kept(lines, keep(_)) == Cardinality({i \in 1..Len(lines) : keep(lines[i])})

\* C14 (as claimed): with skip_empty_lines a line is dropped exactly when it
\* is the empty string after the other enabled switches, so with no other
\* switch a line of spaces is kept.
C14_DropsExactlyEmptyLines ==
    TextCompared =>
        LET opts == call.config.normalization
            stays(l) == opts.skip_empty_lines => NormalizeLine(l, opts) # <<>>
        IN /\ Unwrap(ret).file1_line_count = Kept(call.file1.lines, stays)
           /\ Len(normalize_text(call.file1.lines, opts))
                  = Kept(call.file1.lines, stays)

\* C14 (amended): with skip_empty_lines both normalization routines drop a
\* line exactly when it is empty or made of whitespace only, whatever the
\* other switches are, so a line of spaces is dropped also when no other
\* switch is enabled; without skip_empty_lines no line is dropped.
C14_DropsExactlyBlankLines ==
    TextCompared =>
        LET opts == call.config.normalization
            stays(l) == opts.skip_empty_lines => ~IsBlank(l)
        IN /\ Unwrap(ret).file1_line_count = Kept(call.file1.lines, stays)
           /\ Unwrap(ret).file2_line_count = Kept(call.file2.lines, stays)
           /\ Len(normalize_text(call.file1.lines, opts))
                  = Kept(call.file1.lines, stays)

\* a file with a line of spaces and a line of text was read with
\* skip_empty_lines as the only switch, and only the text was kept
C14_Witness ==
    /\ TextCompared
    /\ call.config.normalization =
           [ignore_trailing_ws |-> FALSE, ignore_all_ws |-> FALSE,
            ignore_case |-> FALSE, skip_empty_lines |-> TRUE]
    /\ call.file1.lines = << <<" ">>, <<"y">> >>
    /\ Unwrap(ret).file1_line_count = 1

-----------------------------------------------------------------------------
(* compare_structured.rs: values_equal. A value is a sequence of characters; *)
(* an f64 is a fraction n/d, an infinity or NaN.                             *)

Fin(n, d) == LET r == Rat(n, d) IN [k |-> "fin", n |-> r[1], d |-> r[2]]
PosInf == [k |-> "inf", n |-> 1, d |-> 0]
NegInf == [k |-> "inf", n |-> -1, d |-> 0]
NaN == [k |-> "nan", n |-> 0, d |-> 0]

\* f64: -x
F64Neg(x) == [x EXCEPT !.n = -x.n]

\* f64: x - y
F64Sub(x, y) ==
    IF x.k = "nan" \/ y.k = "nan" THEN NaN
    ELSE IF x.k = "inf" THEN (IF y.k = "inf" /\ y.n = x.n THEN NaN ELSE x)
    ELSE IF y.k = "inf" THEN F64Neg(y)
    ELSE Fin(x.n * y.d - y.n * x.d, x.d * y.d)

\* f64::abs
F64Abs(x) == IF x.n < 0 THEN F64Neg(x) ELSE x

\* x <= y; false when either is NaN
F64Le(x, y) ==
    IF x.k = "nan" \/ y.k = "nan" THEN FALSE
    ELSE IF x.k = "inf" THEN x.n < 0 \/ x = y
    ELSE IF y.k = "inf" THEN y.n > 0
    ELSE x.n * y.d <= y.n * x.d

\* x > y; false when either is NaN
F64Gt(x, y) == x.k # "nan" /\ y.k # "nan" /\ ~F64Le(x, y)

\* f64::max: the other operand when one is NaN
F64Max(x, y) ==
    IF x.k = "nan" THEN y
    ELSE IF y.k = "nan" THEN x
    ELSE IF F64Le(x, y) THEN y ELSE x

\* f64: x / y for y > 0
F64Div(x, y) ==
    IF x.k = "nan" THEN NaN
    ELSE IF x.k = "inf" THEN (IF y.k = "inf" THEN NaN ELSE x)
    ELSE IF y.k = "inf" THEN Fin(0, 1)
    ELSE Fin(x.n * y.d, x.d * y.n)

DigitValue(c) == (CHOOSE i \in 1..10 : Digits[i] = c) - 1
IsDigit(c) == \E i \in 1..10 : Digits[i] = c

RECURSIVE DecimalValue(_)
\* the number a sequence of digits writes
DecimalValue(ds) ==
    IF Len(ds) = 0 THEN 0
    ELSE 10 * DecimalValue(SubSeq(ds, 1, Len(ds) - 1)) + DigitValue(ds[Len(ds)])

RECURSIVE Pow10(_)
Pow10(n) == IF n = 0 THEN 1 ELSE 10 * Pow10(n - 1)

\* ASCII lowercase of the letters of "inf", "infinity" and "nan"
LowerAscii(s) ==
    [i \in 1..Len(s) |->
        CASE s[i] = "I" -> "i" [] s[i] = "N" -> "n" [] s[i] = "F" -> "f"
          [] s[i] = "A" -> "a" [] s[i] = "T" -> "t" [] s[i] = "Y" -> "y"
          [] OTHER -> s[i]]

\* str::parse::<f64>: an optional sign, then "inf", "infinity" or "nan" in any
\* case, or digits with at most one point and at least one digit. None is
\* Err. (No value here has an exponent.)
parse_f64(s) ==
    LET signed == Len(s) > 0 /\ s[1] \in {"+", "-"}
        body == IF signed THEN Tail(s) ELSE s
        neg == signed /\ s[1] = "-"
        points == {i \in 1..Len(body) : body[i] = "."}
        digits == FilterSeq(body, {i \in 1..Len(body) : body[i] # "."})
        frac == IF points = {} THEN 0
                ELSE Len(body) - (CHOOSE i \in points : TRUE)
        value == Fin(DecimalValue(digits), Pow10(frac))
    IN
    IF LowerAscii(body) \in {<<"i", "n", "f">>,
                             <<"i", "n", "f", "i", "n", "i", "t", "y">>}
        THEN Some(IF neg THEN NegInf ELSE PosInf)
    ELSE IF LowerAscii(body) = <<"n", "a", "n">> THEN Some(NaN)
    ELSE IF /\ Cardinality(points) <= 1
            /\ Len(digits) >= 1
            /\ \A i \in 1..Len(digits) : IsDigit(digits[i])
        THEN Some(IF neg THEN F64Neg(value) ELSE value)
    ELSE None

\* values_equal without the relative tolerance
values_equal_absolute_only(val1, val2, tolerance) ==
    IF val1 = val2 THEN TRUE
    ELSE IF IsSome(parse_f64(val1)) /\ IsSome(parse_f64(val2))
         THEN F64Le(F64Abs(F64Sub(Unwrap(parse_f64(val1)),
                                  Unwrap(parse_f64(val2)))), tolerance)
    ELSE FALSE

\* values_equal
values_equal(val1, val2, tolerance) ==
    IF val1 = val2 THEN TRUE
    ELSE IF IsSome(parse_f64(val1)) /\ IsSome(parse_f64(val2))
         THEN LET n1 == Unwrap(parse_f64(val1))
                  n2 == Unwrap(parse_f64(val2))
                  diff == F64Abs(F64Sub(n1, n2))
                  max_val == F64Max(F64Abs(n1), F64Abs(n2))
              IN IF F64Le(diff, tolerance) THEN TRUE
                 ELSE IF F64Gt(max_val, Fin(0, 1))
                           /\ F64Le(F64Div(diff, max_val), tolerance)
                      THEN TRUE
                 ELSE FALSE
    ELSE FALSE

\* the values compared: decimals, words, the empty value, infinities, NaN
Values ==
    { <<"1", ".", "0">>, <<"1", ".", "0", "0", "0", "0">>,
      <<"1", ".", "0", "0", "0", "1">>, <<"2", ".", "0">>, <<"1">>,
      <<"-", "1", ".", "0">>, <<"0">>, <<"0", ".", "5">>,
      <<"h", "e", "l", "l", "o">>, <<"w", "o", "r", "l", "d">>, <<>>,
      <<"i", "n", "f">>, <<"-", "i", "n", "f">>, <<"N", "a", "N">> }

\* the tolerances: 0, 0.0001 (the default), 0.001, 0.5, infinity
Tolerances == {Fin(0, 1), Fin(1, 10000), Fin(1, 1000), Fin(1, 2), PosInf}

\* the calls of values_equal
ValuesEqualCalls ==
    [fn : {"values_equal"}, val1 : Values, val2 : Values, tolerance : Tolerances]

\* values_equal(val1, val2, tolerance) returns
ValuesEqual ==
    /\ call.fn = "values_equal"
    /\ ret = None
    /\ ret' = Some(values_equal(call.val1, call.val2, call.tolerance))
    /\ UNCHANGED <<call, PipelineVars>>

-----------------------------------------------------------------------------
(* C20: the equality of two values under the tolerance *)

ValuesCompared == call.fn = "values_equal" /\ IsSome(ret)

\* the value parses as a finite number
IsFiniteNumber(v) == IsSome(parse_f64(v)) /\ Unwrap(parse_f64(v)).k = "fin"

\* a fraction q = <<n, d>> is at most the tolerance
WithinTolerance(q, tol) ==
    \/ tol.k = "inf" /\ tol.n > 0
    \/ tol.k = "fin" /\ q[1] * tol.d <= tol.n * q[2]

\* the predicate of the claim: the same string, or two finite numbers whose
\* distance, absolute or relative to the larger magnitude, is within tol
ClaimedEqual(v1, v2, tol) ==
    \/ v1 = v2
    \/ /\ IsFiniteNumber(v1)
       /\ IsFiniteNumber(v2)
       /\ LET a == Unwrap(parse_f64(v1))
              b == Unwrap(parse_f64(v2))
              abs(x) == IF x < 0 THEN -x ELSE x
              dist == Rat(abs(a.n * b.d - b.n * a.d), a.d * b.d)
              big == IF abs(a.n) * b.d >= abs(b.n) * a.d
                     THEN <<abs(a.n), a.d>> ELSE <<abs(b.n), b.d>>
          IN \/ WithinTolerance(dist, tol)
             \/ /\ big[1] > 0
                /\ WithinTolerance(Rat(dist[1] * big[2], dist[2] * big[1]), tol)

\* C20 (as claimed): values_equal(v1, v2, tol) is true exactly when v1 and v2
\* are the same string or both parse as finite numbers within tol of each
\* other, absolutely or relatively; it is symmetric; two different strings
\* that are not numbers are never equal.
C20_EqualExactlyWhenWithinTolerance ==
    ValuesCompared =>
        /\ Unwrap(ret) = ClaimedEqual(call.val1, call.val2, call.tolerance)
        /\ Unwrap(ret) = values_equal(call.val2, call.val1, call.tolerance)
        /\ (call.val1 # call.val2 /\ parse_f64(call.val1) = None
              /\ parse_f64(call.val2) = None) => ~Unwrap(ret)

\* C20 (amended): for a finite tolerance, values_equal(v1, v2, tol) is true
\* exactly when v1 and v2 are the same string or both parse as finite numbers
\* within tol of each other, absolutely or relatively. For every tolerance it
\* is symmetric, and two different strings of which one is not a number are
\* never equal. ("1.0000", "1.0001", 0.001) is true, ("1.0", "2.0", 0.0001)
\* false.
C20_EqualWithinFiniteTolerance ==
    ValuesCompared =>
        /\ call.tolerance.k = "fin" =>
               Unwrap(ret) = ClaimedEqual(call.val1, call.val2, call.tolerance)
        /\ Unwrap(ret) = values_equal(call.val2, call.val1, call.tolerance)
        /\ (call.val1 # call.val2
              /\ (parse_f64(call.val1) = None \/ parse_f64(call.val2) = None))
               => ~Unwrap(ret)
        /\ (call.val1 = <<"1", ".", "0", "0", "0", "0">>
              /\ call.val2 = <<"1", ".", "0", "0", "0", "1">>
              /\ call.tolerance = Fin(1, 1000)) => Unwrap(ret)
        /\ (call.val1 = <<"1", ".", "0">> /\ call.val2 = <<"2", ".", "0">>
              /\ call.tolerance = Fin(1, 10000)) => ~Unwrap(ret)

\* two different decimals were found equal by their relative distance only
C20_Witness ==
    /\ ValuesCompared
    /\ call.val1 = <<"2", ".", "0">>
    /\ call.val2 = <<"1", ".", "0">>
    /\ call.tolerance = Fin(1, 2)
    /\ Unwrap(ret)

-----------------------------------------------------------------------------
(* compare_structured.rs. A table file is its lines; a record is the sequence *)
(* of the fields of a line; a row maps the column names it has to its values. *)

\* get_delimiter
get_delimiter(file_type) == IF file_type = "Tsv" THEN "\t" ELSE ","

\* the csv reader: one record per non-empty line, split on the delimiter
\* (no field here is quoted)
Records(lines, delimiter) ==
    LET full == FilterSeq(lines, {i \in 1..Len(lines) : Len(lines[i]) > 0})
    IN [i \in 1..Len(full) |-> Split(full[i], delimiter)]

\* headers.iter().position(|h| h == k): Some(index from 1) of the first match
Position(headers, k) ==
    LET at == {i \in 1..Len(headers) : headers[i] = k}
    IN IF at = {} THEN None ELSE Some(CHOOSE i \in at : \A j \in at : i <= j)

\* the key column indices: the first column when no key column is configured,
\* else the positions of the configured columns the header has
key_indices(headers, key_columns) ==
    IF Len(key_columns) = 0 THEN <<1>>
    ELSE LET found == [n \in 1..Len(key_columns) |-> Position(headers, key_columns[n])]
             has == FilterSeq(found, {n \in 1..Len(found) : IsSome(found[n])})
         IN [n \in 1..Len(has) |-> Unwrap(has[n])]

\* the composite key of a record: the values record.get(i) finds, joined by '|'
composite_key(record, indices) ==
    LET at == FilterSeq(indices, {n \in 1..Len(indices) : indices[n] <= Len(record)})
    IN Join([n \in 1..Len(at) |-> record[at[n]]], "|")

\* the row map of a record: header name -> value, for the positions the
\* record has; the later of two columns of one name wins
row_map(headers, record) ==
    LET n == Min(Len(headers), Len(record))
    IN [h \in {headers[i] : i \in 1..n} |->
           record[CHOOSE i \in 1..n :
                     headers[i] = h /\ \A j \in 1..n : headers[j] = h => j <= i]]

\* parse_structured_file: [headers, records], records: key -> row, the later
\* of two rows of one key overwriting the earlier
parse_structured_file(lines, delimiter, key_columns) ==
    LET recs == Records(lines, delimiter)
        headers == IF Len(recs) = 0 THEN <<>> ELSE recs[1]
        data == Tail(recs)
        indices == key_indices(headers, key_columns)
        key(i) == composite_key(data[i], indices)
        rows == IF Len(recs) = 0 THEN {} ELSE 1..Len(data)
    IN [headers |-> headers,
        records |->
            [k \in {key(i) : i \in rows} |->
                row_map(headers,
                        data[CHOOSE i \in rows :
                                key(i) = k /\ \A j \in rows : key(j) = k => j <= i])]]

\* the orders in which a set may be iterated
Orders(S) == {s \in [1..Cardinality(S) -> S] : Range(s) = S}

\* row.get(col).map(|s| s.as_str()).unwrap_or("")
ValueAt(row, col) == IF col \in DOMAIN row THEN row[col] ELSE <<>>

\* the number of sample records kept per column
sample_limit == 5

\* the ColumnMismatch of a column with the mismatches m
column_mismatch(col, m) ==
    [column_name |-> col,
     mismatch_count |-> Len(m),
     sample_mismatches |-> Take(m, sample_limit)]

\* the similarity with the common keys counted twice in the total
table_similarity_no_overlap(keys1, keys2, common_keys) ==
    IF Cardinality(keys1) + Cardinality(keys2) > 0
    THEN Rat(Cardinality(common_keys), Cardinality(keys1) + Cardinality(keys2))
    ELSE One

\* the similarity score of two key sets
table_similarity(keys1, keys2, common_keys) ==
    LET total_records == Cardinality(keys1) + Cardinality(keys2)
                            - Cardinality(common_keys)
    IN IF total_records > 0 THEN Rat(Cardinality(common_keys), total_records)
       ELSE One

\* the hash sets and hash map keys compare_structured_files iterates
IteratedSets(file1, file2, cfg) ==
    LET p1 == parse_structured_file(file1.lines, get_delimiter(file1.file_type),
                                    cfg.key_columns)
        p2 == parse_structured_file(file2.lines, get_delimiter(file2.file_type),
                                    cfg.key_columns)
    IN [common_columns |-> Range(p1.headers) \cap Range(p2.headers),
        columns_only_in_file1 |-> Range(p1.headers) \ Range(p2.headers),
        columns_only_in_file2 |-> Range(p2.headers) \ Range(p1.headers),
        common_keys |-> DOMAIN p1.records \cap DOMAIN p2.records]

\* the orders a run may iterate them in: HashSet iteration is in no fixed order
IterationOrders(file1, file2, cfg) ==
    LET s == IteratedSets(file1, file2, cfg)
    IN [common_columns : Orders(s.common_columns),
        columns_only_in_file1 : Orders(s.columns_only_in_file1),
        columns_only_in_file2 : Orders(s.columns_only_in_file2),
        common_keys : Orders(s.common_keys)]

\* compare_structured_files on two files that can be read, the hash sets
\* being iterated in the orders of `order`
compare_structured_files(file1, file2, cfg, order) ==
    LET is_key(col) == col \in Range(cfg.key_columns)
        \* field_mismatches: for a column, the mismatches pushed in the order
        \* the common keys are iterated
        field_mismatches_of(records1, records2) ==
            [col \in Range(order.common_columns) |->
                LET all == [n \in 1..Len(order.common_keys) |->
                               [key |-> order.common_keys[n],
                                value1 |-> ValueAt(records1[order.common_keys[n]], col),
                                value2 |-> ValueAt(records2[order.common_keys[n]], col)]]
                IN IF is_key(col) THEN <<>>
                   ELSE FilterSeq(all, {n \in 1..Len(all) :
                            ~values_equal(all[n].value1, all[n].value2,
                                          cfg.numeric_tolerance)})]
        \* the column mismatch summary: the common columns, in their order,
        \* that are no key column and have a mismatch
        column_mismatches_of(field_mismatches) ==
            LET listed == FilterSeq(order.common_columns,
                                    {n \in 1..Len(order.common_columns) :
                                        /\ ~is_key(order.common_columns[n])
                                        /\ Len(field_mismatches[order.common_columns[n]]) > 0})
            IN [n \in 1..Len(listed) |->
                   column_mismatch(listed[n], field_mismatches[listed[n]])]
        RECURSIVE Sum(_)
        Sum(s) == IF Len(s) = 0 THEN 0 ELSE s[1].mismatch_count + Sum(Tail(s))
        result(keys1, keys2, column_mismatches, total_field_mismatches) ==
            [type |-> "Structured",
             linked_id |-> linked_id_of(file1, file2),
             file1_path |-> Display(file1.path),
             file2_path |-> Display(file2.path),
             file1_row_count |-> Cardinality(keys1),
             file2_row_count |-> Cardinality(keys2),
             common_records |-> Cardinality(keys1 \cap keys2),
             only_in_file1 |-> Cardinality(keys1 \ keys2),
             only_in_file2 |-> Cardinality(keys2 \ keys1),
             similarity_score |-> table_similarity(keys1, keys2, keys1 \cap keys2),
             field_mismatches |-> column_mismatches,
             total_field_mismatches |-> total_field_mismatches,
             columns_only_in_file1 |-> order.columns_only_in_file1,
             columns_only_in_file2 |-> order.columns_only_in_file2,
             common_columns |-> order.common_columns,
             identical |-> /\ keys1 \ keys2 = {}
                           /\ keys2 \ keys1 = {}
                           /\ total_field_mismatches = 0]
        summed(keys1, keys2, column_mismatches) ==
            result(keys1, keys2, column_mismatches, Sum(column_mismatches))
        compared(records1, records2) ==
            summed(DOMAIN records1, DOMAIN records2,
                   column_mismatches_of(field_mismatches_of(records1, records2)))
    IN compared(parse_structured_file(file1.lines, get_delimiter(file1.file_type),
                                      cfg.key_columns).records,
                parse_structured_file(file2.lines, get_delimiter(file2.file_type),
                                      cfg.key_columns).records)

\* the data rows of the two-column tables: two rows of one key that differ
\* in b by 0.0001, a row of another key, a row with the first field only
TableRows ==
    { <<"x", ",", "1", ".", "0">>,
      <<"x", ",", "1", ".", "0", "0", "0", "1">>,
      <<"y", ",", "2">>,
      <<"x">> }

\* the header lines
HeaderAB == <<"a", ",", "b">>
HeaderAC == <<"a", ",", "c">>
HeaderABC == <<"a", ",", "b", ",", "c">>
HeaderACB == <<"a", ",", "c", ",", "b">>

\* a comma separated table file: a header line and its rows
TableFile(path, hash, header, rows) ==
    [path |-> path, content_hash |-> hash, file_type |-> "Csv",
     lines |-> <<header>> \o rows]

\* the rows of a table of sample_limit + 1 rows: the keys 1, 2, ... and v in
\* column b
LongRows(v) == [i \in 1..(sample_limit + 1) |-> <<Digits[i + 1], ",", v>>]

\* the key column lists: none, one column, two columns, a column no file has
KeyColumnLists == { <<>>, << <<"a">> >>, << <<"a">>, <<"b">> >>, << <<"q">> >> }

\* every key column list with the tolerance 0, one of them with 0.001 too
TableConfigs ==
    [key_columns : KeyColumnLists, numeric_tolerance : {Fin(0, 1)}]
      \cup {[key_columns |-> << <<"a">> >>, numeric_tolerance |-> Fin(1, 1000)]}

\* the calls of compare_structured_files: a table with the header a,b against
\* a table with the header a,b or a,c, and the two long tables
StructuredCalls ==
    {[fn |-> "compare_structured_files",
      file1 |-> TableFile(<<"a">>, "f1", HeaderAB, r1),
      file2 |-> TableFile(<<"b">>, IF h2 = HeaderAB /\ r2 = r1 THEN "f1" ELSE "f2",
                          h2, r2),
      config |-> c] :
       r1 \in SeqsUpTo(TableRows, MaxFileLines),
       r2 \in SeqsUpTo(TableRows, MaxFileLines),
       h2 \in {HeaderAB, HeaderAC}, c \in TableConfigs}
    \cup
    {[fn |-> "compare_structured_files",
      file1 |-> TableFile(<<"a">>, "f1", HeaderAB, LongRows("p")),
      file2 |-> TableFile(<<"b">>, "f2", HeaderAB, LongRows("q")),
      config |-> [key_columns |-> <<>>, numeric_tolerance |-> Fin(0, 1)]]}

\* compare_structured_files(file1, file2, config) returns
CompareStructuredFiles ==
    /\ call.fn = "compare_structured_files"
    /\ ret = None
    /\ \E order \in IterationOrders(call.file1, call.file2, call.config) :
          ret' = Some(compare_structured_files(call.file1, call.file2,
                                               call.config, order))
    /\ UNCHANGED <<call, PipelineVars>>

\* the calls of parse_structured_file: three-column headers over rows of
\* one, two and three fields
ParseCalls ==
    [fn : {"parse_structured_file"},
     lines : {<<h>> \o r :
                 h \in {HeaderABC, HeaderACB},
                 r \in SeqsUpTo(TableRows \cup {<<"x", ",", "1", ",", "p">>},
                                MaxFileLines)},
     delimiter : {",", "\t"},
     key_columns : KeyColumnLists \cup { << <<"a">>, <<"c">> >> }]

\* parse_structured_file(path, delimiter, key_columns) returns
ParseStructuredFile ==
    /\ call.fn = "parse_structured_file"
    /\ ret = None
    /\ ret' = Some(parse_structured_file(call.lines, call.delimiter,
                                         call.key_columns))
    /\ UNCHANGED <<call, PipelineVars>>

-----------------------------------------------------------------------------
(* The calls of encode_ranges *)

\* the largest position of an encoded list
MaxPosition == 10

RECURSIVE Ascending(_)
\* the members of a set of numbers in ascending order
Ascending(S) ==
    IF S = {} THEN <<>>
    ELSE LET least == CHOOSE x \in S : \A y \in S : x <= y
         IN <<least>> \o Ascending(S \ {least})

\* the calls of encode_ranges: the strictly increasing position lists, as
\* compare_text_files builds them from the indices of the changes
RangeCalls ==
    {[fn |-> "encode_ranges", positions |-> Ascending(S)] :
        S \in SUBSET (0..MaxPosition)}

\* encode_ranges(positions) returns
EncodeRanges ==
    /\ call.fn = "encode_ranges"
    /\ ret = None
    /\ ret' = Some(encode_ranges(call.positions))
    /\ UNCHANGED <<call, PipelineVars>>

-----------------------------------------------------------------------------
(* The calls of compute_schema_signature *)

\* the longest column list
MaxColumns == 3

\* the column names
ColumnNames == { <<"h">>, <<"i">>, <<"h", "i">> }

\* the calls: the signatures of two column lists, as test_schema_signature
\* computes them
SignatureCalls ==
    [fn : {"compute_schema_signature"},
     columns1 : SeqsUpTo(ColumnNames, MaxColumns),
     columns2 : SeqsUpTo(ColumnNames, MaxColumns)]

\* compute_schema_signature returns, for each of the two lists
ComputeSchemaSignature ==
    /\ call.fn = "compute_schema_signature"
    /\ ret = None
    /\ ret' = Some(<<compute_schema_signature(call.columns1),
                     compute_schema_signature(call.columns2)>>)
    /\ UNCHANGED <<call, PipelineVars>>

-----------------------------------------------------------------------------
(* The two normalization routines on the bytes of a file. A content is a *)
(* sequence of characters and of bytes that are no UTF-8.                 *)

\* a byte that is not valid UTF-8, and the character it decodes to
InvalidByte == "#"
ReplacementChar == "?"

\* String::from_utf8_lossy
from_utf8_lossy(content) ==
    [i \in 1..Len(content) |->
        IF content[i] = InvalidByte THEN ReplacementChar ELSE content[i]]

RECURSIVE SplitInclusiveFrom(_, _)
\* the pieces of a text, each ending with its '\n' (the last may have none)
SplitInclusiveFrom(text, cur) ==
    IF Len(text) = 0 THEN (IF Len(cur) = 0 THEN <<>> ELSE <<cur>>)
    ELSE IF text[1] = "\n"
         THEN <<Append(cur, "\n")>> \o SplitInclusiveFrom(Tail(text), <<>>)
    ELSE SplitInclusiveFrom(Tail(text), Append(cur, text[1]))

\* a piece without its line terminator: "\n", and a "\r" before it
StripTerminator(piece) ==
    IF ~EndsWithNewline(piece) THEN piece
    ELSE LET line == SubSeq(piece, 1, Len(piece) - 1)
         IN IF Len(line) > 0 /\ line[Len(line)] = "\r"
            THEN SubSeq(line, 1, Len(line) - 1)
            ELSE line

\* str::lines
str_lines(text) ==
    LET pieces == SplitInclusiveFrom(text, <<>>)
    IN [i \in 1..Len(pieces) |-> StripTerminator(pieces[i])]

\* BufRead::lines: read_line by read_line; a line that is no UTF-8 is an Err
reader_lines(content) ==
    LET pieces == SplitInclusiveFrom(content, <<>>)
    IN [i \in 1..Len(pieces) |->
           IF InvalidByte \in Range(pieces[i]) THEN None
           ELSE Some(StripTerminator(pieces[i]))]

\* read_normalized_lines on the bytes of a file: Err (None) when `line?`
\* meets an Err, else Ok of the normalized lines
read_normalized_lines_of(content, normalization) ==
    LET read == reader_lines(content)
    IN IF \E i \in 1..Len(read) : read[i] = None THEN None
       ELSE Some(read_normalized_lines([i \in 1..Len(read) |-> Unwrap(read[i])],
                                       normalization))

\* normalize_text on the text compute_fingerprint_for_entry decodes
normalize_text_of(content, opts) ==
    normalize_text(str_lines(from_utf8_lossy(content)), opts)

\* the length of the longest content
MaxContentLen == 3

\* the bytes of the contents
ContentBytes == {"Y", " ", "\n", "\r", InvalidByte}

\* the five switches of NormalizationOptions
AllNormalizationOptions ==
    [ignore_eol : BOOLEAN, ignore_trailing_ws : BOOLEAN, ignore_all_ws : BOOLEAN,
     ignore_case : BOOLEAN, skip_empty_lines : BOOLEAN]

\* the calls: both routines on one content under one choice of the switches
NormalizeCalls ==
    [fn : {"normalize"},
     content : SeqsUpTo(ContentBytes, MaxContentLen),
     normalization : AllNormalizationOptions]

\* the same switches with ignore_eol the other way
FlipEol(opts) == [opts EXCEPT !.ignore_eol = ~opts.ignore_eol]

\* normalize_text and read_normalized_lines return, under the switches of
\* the call and under the same switches with ignore_eol flipped
Normalize ==
    /\ call.fn = "normalize"
    /\ ret = None
    /\ ret' = Some([text |-> normalize_text_of(call.content, call.normalization),
                    read |-> read_normalized_lines_of(call.content, call.normalization),
                    text_flipped |->
                        normalize_text_of(call.content, FlipEol(call.normalization)),
                    read_flipped |->
                        read_normalized_lines_of(call.content,
                                                 FlipEol(call.normalization))])
    /\ UNCHANGED <<call, PipelineVars>>

-----------------------------------------------------------------------------
(* The calls of estimate_similarity *)

\* the fingerprints of an entry: an empty or a computed content hash, no
\* SimHash or one of four, no schema signature or one of two, a size
FingerprintedEntries ==
    [content_hash : {"", "f1", "f2"},
     simhash : {None, Some({}), Some({0, 1}), Some({1, 2, 3}),
                Some(0..(SimHashBits - 1))},
     schema_signature : {None, Some(<<"h">>), Some(<<"h", "|", "i">>)},
     size : {0, 8, 100}]

\* the calls: estimate_similarity(f1, f2) and estimate_similarity(f2, f1)
EstimateCalls ==
    [fn : {"estimate_similarity"},
     f1 : FingerprintedEntries, f2 : FingerprintedEntries]

\* estimate_similarity returns, for the pair and for the pair swapped
EstimateSimilarity ==
    /\ call.fn = "estimate_similarity"
    /\ ret = None
    /\ ret' = Some(<<estimate_similarity(call.f1, call.f2),
                     estimate_similarity(call.f2, call.f1)>>)
    /\ UNCHANGED <<call, PipelineVars>>

-----------------------------------------------------------------------------
(* Two table files indexed, fingerprinted, blocked and estimated *)

\* a table with the columns h, i, and one with the columns of ContentC in
\* another order
ContentD == [id |-> "D", size |-> 9, nul |-> FALSE,
             lines |-> << <<"h",",","i">>, <<"1",",","2">> >>,
             simhash |-> {5, 6}]
ContentE == [id |-> "E", size |-> 8, nul |-> FALSE,
             lines |-> << <<"i",",","n">>, <<"2",",","1">> >>,
             simhash |-> {4}]

TableContents == {ContentC, ContentD, ContentE}

\* the calls: a table file under each root, and whether the fingerprinter
\* can read it
FingerprintPairCalls ==
    [fn : {"fingerprint_pair"},
     file1 : [rel : {<<"t.csv">>}, content : TableContents],
     file2 : [rel : {<<"t.csv">>, <<"u.csv">>}, content : TableContents],
     read1 : BOOLEAN, read2 : BOOLEAN]

\* index_single_file and compute_fingerprint_for_entry on both files, then
\* passes_blocking_rules and estimate_similarity on the two entries, and on
\* the two entries with the schema signature of the first given to the second
FingerprintPair ==
    /\ call.fn = "fingerprint_pair"
    /\ ret = None
    /\ LET f1 == compute_fingerprint_for_entry(index_single_file("d1", call.file1),
                                               call.read1)
           f2 == compute_fingerprint_for_entry(index_single_file("d2", call.file2),
                                               call.read2)
           same == [f2 EXCEPT !.schema_signature = f1.schema_signature]
       IN ret' = Some([f1 |-> f1, f2 |-> f2,
                       passes |-> passes_blocking_rules(f1, f2),
                       estimate |-> estimate_similarity(f1, f2),
                       same_schema_passes |-> passes_blocking_rules(f1, same),
                       same_schema_estimate |-> estimate_similarity(f1, same)])
    /\ UNCHANGED <<call, PipelineVars>>

-----------------------------------------------------------------------------
(* A pair of files of one content, by the shortcut and by its comparator *)

\* the configs of the comparisons: no key column, tolerance 0, the line
\* diff with room for everything, with and without ignore_case
ComparePairConfigs ==
    [key_columns : {<<>>}, numeric_tolerance : {Fin(0, 1)},
     normalization : [ignore_trailing_ws : {FALSE}, ignore_all_ws : {FALSE},
                      ignore_case : BOOLEAN, skip_empty_lines : {FALSE}],
     similarity_algorithm : {"Diff"}, max_diff_bytes : {200}]

\* the calls: the same content at the same relative path under both roots
ComparePairCalls ==
    {[fn |-> "compare_pair",
      file1 |-> [rel |-> r, content |-> c],
      file2 |-> [rel |-> r, content |-> c],
      config |-> cfg] :
        r \in {<<"t.csv">>, <<"a.txt">>},
        c \in TableContents \cup {ContentX, ContentY},
        cfg \in ComparePairConfigs}

\* what a comparator reads of an entry: the lines of its file
Readable(entry) ==
    [path |-> entry.path, content_hash |-> entry.content_hash,
     file_type |-> entry.file_type, lines |-> FileAt(entry.path).content.lines]

\* both files indexed and fingerprinted; the pair has exact_hash_match; the
\* result of create_identical_result, and the result of the comparator
\* compare_pair dispatches a pair of these kinds to in auto mode
ComparePair ==
    /\ call.fn = "compare_pair"
    /\ ret = None
    /\ \E f1 \in {compute_fingerprint_for_entry(index_single_file("d1", call.file1), TRUE)},
          f2 \in {compute_fingerprint_for_entry(index_single_file("d2", call.file2), TRUE)} :
          /\ hash_flag(f1, f2)
          /\ \E read1 \in {Readable(f1)}, read2 \in {Readable(f2)} :
             \E order \in IterationOrders(read1, read2, call.config) :
                ret' = Some([f1 |-> f1, f2 |-> f2,
                             shortcut |-> create_identical_result(f1, f2),
                             compared |->
                                 IF auto_detect_mode(f1, f2) = "Structured"
                                 THEN compare_structured_files(read1, read2,
                                                               call.config, order)
                                 ELSE compare_text_files(read1, read2, call.config)])
    /\ UNCHANGED <<call, PipelineVars>>

\* the table pairs compared in two executions: the short tables under the
\* default key and the tolerance 0, file2 with one data row at most
TwoRunCalls ==
    {[s EXCEPT !.fn = "compare_structured_files_twice"] :
        s \in {t \in StructuredCalls :
                  /\ t.config = [key_columns |-> <<>>, numeric_tolerance |-> Fin(0, 1)]
                  /\ Len(t.file1.lines) <= MaxFileLines + 1
                  /\ Len(t.file2.lines) <= 2}}

\* two executions of compare_structured_files(file1, file2, config) on the same
\* files and the same config return: each builds its own hash sets, which it
\* iterates in an order of its own
CompareStructuredFilesTwice ==
    /\ call.fn = "compare_structured_files_twice"
    /\ ret = None
    /\ \E order \in [1..2 -> IterationOrders(call.file1, call.file2, call.config)] :
          ret' = Some([run \in 1..2 |->
                          compare_structured_files(call.file1, call.file2,
                                                   call.config, order[run])])
    /\ UNCHANGED <<call, PipelineVars>>

-----------------------------------------------------------------------------
(* The specification of the single calls *)

InitCalls ==
    /\ PipelineIdle
    /\ call \in DetectCalls \cup TextCalls \cup ValuesEqualCalls
                  \cup ParseCalls \cup StructuredCalls \cup RangeCalls
                  \cup SignatureCalls \cup NormalizeCalls
                  \cup EstimateCalls \cup FingerprintPairCalls
                  \cup ComparePairCalls \cup TwoRunCalls
    /\ ret = None
    /\ disk = IF call.fn \in {"fingerprint_pair", "compare_pair"}
              THEN [d1 |-> {call.file1}, d2 |-> {call.file2}]
              ELSE [d1 |-> {}, d2 |-> {}]

NextCalls ==
    \/ DetectFileType
    \/ CompareTextFiles
    \/ ValuesEqual
    \/ ParseStructuredFile
    \/ CompareStructuredFiles
    \/ EncodeRanges
    \/ ComputeSchemaSignature
    \/ Normalize
    \/ EstimateSimilarity
    \/ FingerprintPair
    \/ ComparePair
    \/ CompareStructuredFilesTwice

SpecCalls == InitCalls /\ [][NextCalls]_vars

-----------------------------------------------------------------------------
(* C17: the key of a row *)

\* parse_structured_file has returned
TableParsed == call.fn = "parse_structured_file" /\ IsSome(ret)

\* the header and the data records of the parsed file
ParsedHeaders == Head(Records(call.lines, call.delimiter))
ParsedData == Tail(Records(call.lines, call.delimiter))

\* the configured key columns the header has, in the order of the config list
ExistingKeyColumns ==
    FilterSeq(call.key_columns,
              {n \in 1..Len(call.key_columns) :
                  call.key_columns[n] \in Range(ParsedHeaders)})

\* the value of the first column named col in a record, the empty string
\* when the record is too short to have it
ValueOrEmpty(record, col) ==
    LET i == CHOOSE k \in 1..Len(ParsedHeaders) :
                 /\ ParsedHeaders[k] = col
                 /\ \A m \in 1..(k - 1) : ParsedHeaders[m] # col
    IN IF i <= Len(record) THEN record[i] ELSE <<>>

\* the key of a record, an absent value contributing the empty string
PaddedKey(record) ==
    IF Len(call.key_columns) = 0 THEN record[1]
    ELSE Join([n \in 1..Len(ExistingKeyColumns) |->
                  ValueOrEmpty(record, ExistingKeyColumns[n])], "|")

\* C17: the records of a parsed table are keyed by the values of the
\* configured key columns the header has, joined by '|' in config order, a
\* value absent from a short row contributing the empty string; by the value
\* of the first column when no key column is configured.
C17_KeyPadsAbsentValues ==
    TableParsed =>
        DOMAIN Unwrap(ret).records =
            {PaddedKey(ParsedData[i]) : i \in 1..Len(ParsedData)}

-----------------------------------------------------------------------------
(* C18: the mismatches of a column *)

\* compare_structured_files has returned
TablesCompared == call.fn = "compare_structured_files" /\ IsSome(ret)

\* the two parsed files
Parsed1 ==
    parse_structured_file(call.file1.lines, get_delimiter(call.file1.file_type),
                          call.config.key_columns)
Parsed2 ==
    parse_structured_file(call.file2.lines, get_delimiter(call.file2.file_type),
                          call.config.key_columns)

Keys1 == DOMAIN Parsed1.records
Keys2 == DOMAIN Parsed2.records

\* the columns of both headers that are not configured as key columns
ComparedColumns ==
    (Range(Parsed1.headers) \cap Range(Parsed2.headers))
        \ Range(call.config.key_columns)

\* the common keys whose two values in the column are unequal under the
\* tolerance predicate
MismatchKeys(col) ==
    {k \in Keys1 \cap Keys2 :
        ~values_equal(ValueAt(Parsed1.records[k], col),
                      ValueAt(Parsed2.records[k], col),
                      call.config.numeric_tolerance)}

\* the mismatch record of a key in a column
MismatchRecord(k, col) ==
    [key |-> k,
     value1 |-> ValueAt(Parsed1.records[k], col),
     value2 |-> ValueAt(Parsed2.records[k], col)]

\* the ColumnMismatch entries of the result
Listed == Unwrap(ret).field_mismatches

RECURSIVE SumCounts(_)
\* the sum of the counts of a sequence of entries
SumCounts(s) == IF Len(s) = 0 THEN 0 ELSE s[1].mismatch_count + SumCounts(Tail(s))

\* one entry per compared column with a mismatch, its count the number of
\* mismatching keys; the total is the sum of the counts
CountsByColumn ==
    /\ \A n, o \in 1..Len(Listed) :
          Listed[n].column_name = Listed[o].column_name => n = o
    /\ {Listed[n].column_name : n \in 1..Len(Listed)}
          = {col \in ComparedColumns : MismatchKeys(col) # {}}
    /\ \A n \in 1..Len(Listed) :
          Listed[n].mismatch_count = Cardinality(MismatchKeys(Listed[n].column_name))
    /\ Unwrap(ret).total_field_mismatches
          = SumCounts(Listed)

\* the row of file1 (counted from 1 after the header) that holds the record
\* of a key: the last row with the key
RowOf(k) ==
    LET data == Tail(Records(call.file1.lines, get_delimiter(call.file1.file_type)))
        indices == key_indices(Parsed1.headers, call.config.key_columns)
    IN CHOOSE i \in 1..Len(data) :
          /\ composite_key(data[i], indices) = k
          /\ \A j \in 1..Len(data) : composite_key(data[j], indices) = k => j <= i

\* the samples of an entry are min(5, count) mismatch records of its column,
\* no key twice
SamplesAreMismatches(e) ==
    /\ Len(e.sample_mismatches) = Min(5, e.mismatch_count)
    /\ \A n \in 1..Len(e.sample_mismatches) :
          /\ e.sample_mismatches[n].key \in MismatchKeys(e.column_name)
          /\ e.sample_mismatches[n]
                = MismatchRecord(e.sample_mismatches[n].key, e.column_name)
    /\ \A n, o \in 1..Len(e.sample_mismatches) :
          e.sample_mismatches[n].key = e.sample_mismatches[o].key => n = o

\* the samples of an entry are the first mismatches in the order of the rows
SamplesInRowOrder(e) ==
    /\ \A n, o \in 1..Len(e.sample_mismatches) :
          n < o => RowOf(e.sample_mismatches[n].key) < RowOf(e.sample_mismatches[o].key)
    /\ \A k \in MismatchKeys(e.column_name) :
          \/ \E n \in 1..Len(e.sample_mismatches) : e.sample_mismatches[n].key = k
          \/ \A n \in 1..Len(e.sample_mismatches) :
                RowOf(e.sample_mismatches[n].key) < RowOf(k)

\* C18 as stated: per common non-key column the count is the number of common
\* keys with unequal values, columns without a mismatch are not listed, the
\* total is the sum of the counts, and the samples are the first min(5, count)
\* mismatches in the order of the file's rows.
C18_SamplesInRowOrder ==
    TablesCompared =>
        /\ CountsByColumn
        /\ \A n \in 1..Len(Listed) :
              SamplesAreMismatches(Listed[n]) /\ SamplesInRowOrder(Listed[n])

-----------------------------------------------------------------------------
(* C19: the similarity and the identity of two tables *)

\* C19: the similarity of a table result is the Jaccard index of the two key
\* sets, 1 when both are empty; the result is identical exactly when the two
\* key sets are equal and no field mismatch was counted, whatever columns
\* only one file has; an identical result has the similarity 1.
C19_JaccardAndIdentical ==
    TablesCompared =>
        LET r == Unwrap(ret)
        IN /\ r.similarity_score =
                 IF Keys1 \cup Keys2 = {} THEN One
                 ELSE Rat(Cardinality(Keys1 \cap Keys2), Cardinality(Keys1 \cup Keys2))
           /\ r.identical <=>
                 /\ Keys1 \ Keys2 = {}
                 /\ Keys2 \ Keys1 = {}
                 /\ r.total_field_mismatches = 0
           /\ r.identical => r.similarity_score = One

\* two tables of the same keys, each with a column the other lacks, were
\* found identical
C19_Witness ==
    /\ TablesCompared
    /\ Keys1 # {}
    /\ Len(Unwrap(ret).columns_only_in_file1) > 0
    /\ Len(Unwrap(ret).columns_only_in_file2) > 0
    /\ Unwrap(ret).identical
    /\ Unwrap(ret).similarity_score = One

-----------------------------------------------------------------------------
(* C11: a file compared with itself *)

\* C11: a text file compared with itself, under any normalization and either
\* similarity algorithm, has no line on one side only, is identical and has
\* the similarity 1; a table file compared with itself, under any key columns
\* and tolerance, has no key on one side only, no field mismatch, is
\* identical and has the similarity 1.
C11_IdentityLaw ==
    /\ (TextCompared /\ call.file1.lines = call.file2.lines) =>
          /\ Unwrap(ret).only_in_file1 = 0
          /\ Unwrap(ret).only_in_file2 = 0
          /\ Unwrap(ret).identical
          /\ Unwrap(ret).similarity_score = One
    /\ (TablesCompared /\ call.file1.lines = call.file2.lines
                       /\ call.file1.file_type = call.file2.file_type) =>
          /\ Unwrap(ret).only_in_file1 = 0
          /\ Unwrap(ret).only_in_file2 = 0
          /\ Unwrap(ret).total_field_mismatches = 0
          /\ Unwrap(ret).identical
          /\ Unwrap(ret).similarity_score = One

\* a file of two lines was compared with itself by character similarity
C11_Witness ==
    /\ TextCompared
    /\ call.file1.lines = call.file2.lines
    /\ Len(Lines1) = 2
    /\ call.config.similarity_algorithm = "CharJaro"
    /\ Unwrap(ret).identical

-----------------------------------------------------------------------------
(* C22: the range encoder *)

\* encode_ranges has returned
RangesEncoded == call.fn = "encode_ranges" /\ IsSome(ret)

\* the ranges an encoded string lists: <<first, last>> per comma separated
\* piece, a piece without '-' being the range of one number
DecodedRanges(s) ==
    IF Len(s) = 0 THEN <<>>
    ELSE LET pieces == Split(s, ",")
         IN [n \in 1..Len(pieces) |->
                LET ends == Split(pieces[n], "-")
                IN <<DecimalValue(ends[1]), DecimalValue(ends[Len(ends)])>>]

RECURSIVE Expand(_)
\* the numbers of a sequence of ranges, range after range
Expand(ranges) ==
    IF Len(ranges) = 0 THEN <<>>
    ELSE [i \in 1..(ranges[1][2] - ranges[1][1] + 1) |-> ranges[1][1] + i - 1]
            \o Expand(Tail(ranges))

\* every piece is a number or first-last with first < last, written in
\* decimal digits
WellWritten(s) ==
    Len(s) > 0 =>
        \A piece \in Range(Split(s, ",")) :
            LET ends == Split(piece, "-")
            IN /\ Len(ends) \in {1, 2}
               /\ \A e \in Range(ends) :
                     Len(e) > 0 /\ \A c \in Range(e) : IsDigit(c)
               /\ Len(ends) = 2 => DecimalValue(ends[1]) < DecimalValue(ends[2])

\* C22: of a strictly increasing list of positions, encode_ranges returns
\* the comma separated maximal runs of consecutive numbers in ascending
\* order, a run of one as the number and a longer run as first-last;
\* decoding the string gives back the list; the empty list gives the empty
\* string and 1,2,3,5,7,8,9 gives 1-3,5,7-9.
C22_EncodesMaximalRuns ==
    RangesEncoded =>
        LET s == Unwrap(ret)
            ranges == DecodedRanges(s)
        IN /\ WellWritten(s)
           /\ Expand(ranges) = call.positions
           /\ \A n \in 1..(Len(ranges) - 1) : ranges[n][2] + 1 < ranges[n + 1][1]
           /\ call.positions = <<>> => s = <<>>
           /\ call.positions = <<1, 2, 3, 5, 7, 8, 9>>
                 => s = <<"1", "-", "3", ",", "5", ",", "7", "-", "9">>

\* a list with a run of three, a single position and a run ending in a
\* number of two digits was encoded
C22_Witness ==
    /\ RangesEncoded
    /\ call.positions = <<1, 2, 3, 5, 9, 10>>
    /\ Unwrap(ret) = <<"1", "-", "3", ",", "5", ",", "9", "-", "1", "0">>

-----------------------------------------------------------------------------
(* C23: the schema signature of permuted columns *)

\* the two signatures have been computed
SignaturesComputed == call.fn = "compute_schema_signature" /\ IsSome(ret)

\* the number of times x occurs in s
Occurrences(s, x) == Cardinality({n \in 1..Len(s) : s[n] = x})

\* t is a permutation of s
IsPermutation(s, t) ==
    /\ Len(s) = Len(t)
    /\ \A x \in Range(s) \cup Range(t) : Occurrences(s, x) = Occurrences(t, x)

\* C23: two column lists that are permutations of each other have the same
\* schema signature.
C23_PermutedColumnsSameSignature ==
    (SignaturesComputed /\ IsPermutation(call.columns1, call.columns2)) =>
        Unwrap(ret)[1] = Unwrap(ret)[2]

\* the signatures of three columns and of the same columns reversed were
\* computed
C23_Witness ==
    /\ SignaturesComputed
    /\ call.columns1 = << <<"i">>, <<"h", "i">>, <<"h">> >>
    /\ call.columns2 = << <<"h">>, <<"h", "i">>, <<"i">> >>
    /\ Unwrap(ret)[1] = Unwrap(ret)[2]

-----------------------------------------------------------------------------
(* C24: the comparator a pair is dispatched to *)

\* the file kinds of the table comparator
TableKinds == {"Csv", "Tsv"}

\* the comparator of a pair by the claimed rule
ClaimedComparator(pair) ==
    CASE config.mode = "Text" -> "Text"
      [] config.mode = "Structured" -> "Structured"
      [] OTHER -> IF pair.file1.file_type \in TableKinds
                      /\ pair.file2.file_type \in TableKinds
                  THEN "Structured" ELSE "Text"

-----------------------------------------------------------------------------
(* C25: the two normalization routines agree *)

\* both routines have returned
Normalized == call.fn = "normalize" /\ IsSome(ret)

\* C25: for every file content and every combination of the five switches,
\* read_normalized_lines on the file returns the line sequence normalize_text
\* returns on the decoded content, and neither result depends on ignore_eol.
C25_RoutinesAgree ==
    Normalized =>
        /\ IsSome(Unwrap(ret).read)
        /\ Unwrap(Unwrap(ret).read) = Unwrap(ret).text
        /\ Unwrap(ret).text_flipped = Unwrap(ret).text
        /\ Unwrap(ret).read_flipped = Unwrap(ret).read

-----------------------------------------------------------------------------
(* C26: the cascade of estimate_similarity *)

\* estimate_similarity has returned
Estimated == call.fn = "estimate_similarity" /\ IsSome(ret)

\* the number of bits in which two SimHashes differ
Popcount(h1, h2) == Cardinality({b \in 0..63 : (b \in h1) # (b \in h2)})

\* the estimate by the five rules, the first that applies
ClaimedEstimate(f1, f2) ==
    CASE f1.content_hash = f2.content_hash /\ f1.content_hash # "" -> <<1, 1>>
      [] OTHER ->
    CASE f1.simhash # None /\ f2.simhash # None ->
             Rat(64 - Popcount(f1.simhash[1], f2.simhash[1]), 64)
      [] OTHER ->
    CASE f1.schema_signature # None /\ f1.schema_signature = f2.schema_signature ->
             <<1, 2>>
      [] OTHER ->
    CASE f1.size > 0 /\ f2.size > 0 ->
             IF f1.size <= f2.size THEN Rat(3 * f1.size, 10 * f2.size)
             ELSE Rat(3 * f2.size, 10 * f1.size)
      [] OTHER -> <<0, 1>>

\* C26: estimate_similarity is 1 for equal non-empty content hashes; else
\* 1 - popcount(h1 xor h2)/64 when both SimHashes are present; else 0.5 when
\* both schema signatures are present and equal; else 0.3 * min/max of the
\* sizes when both are positive; else 0. It is the same for the swapped
\* pair and lies between 0 and 1.
C26_EstimateCascade ==
    Estimated =>
        LET e == Unwrap(ret)[1]
        IN /\ e = ClaimedEstimate(call.f1, call.f2)
           /\ e = Unwrap(ret)[2]
           /\ 0 <= e[1] /\ e[1] <= e[2]

\* two entries without a common hash and without SimHashes on both sides,
\* with different schema signatures, were estimated by their sizes
C26_Witness ==
    /\ Estimated
    /\ call.f1.content_hash = ""
    /\ call.f1.simhash = None
    /\ call.f1.schema_signature # None
    /\ call.f2.schema_signature # None
    /\ call.f1.schema_signature # call.f2.schema_signature
    /\ call.f1.size = 8 /\ call.f2.size = 100
    /\ Unwrap(ret)[1] = <<3, 125>>

-----------------------------------------------------------------------------
(* C27: a schema signature mismatch *)

\* two structured entries came out of the fingerprinter with different
\* schema signatures
SchemaMismatch ==
    /\ call.fn = "fingerprint_pair"
    /\ IsSome(ret)
    /\ is_structured(Unwrap(ret).f1.file_type)
    /\ is_structured(Unwrap(ret).f2.file_type)
    /\ IsSome(Unwrap(ret).f1.schema_signature)
    /\ IsSome(Unwrap(ret).f2.schema_signature)
    /\ Unwrap(ret).f1.schema_signature # Unwrap(ret).f2.schema_signature

\* C27: for two structured entries produced by the fingerprinter, differing
\* schema signatures never make the blocking rules reject the pair, and the
\* estimated similarity is lower than that of the same two entries with
\* equal schema signatures.
C27_MismatchLowersEstimate ==
    SchemaMismatch =>
        /\ Unwrap(ret).passes = Unwrap(ret).same_schema_passes
        /\ RatLess(Unwrap(ret).estimate, Unwrap(ret).same_schema_estimate)

-----------------------------------------------------------------------------
(* C28: the exact_hash_match flag *)

\* C28: under every pairing strategy a candidate pair has exact_hash_match
\* exactly when its two content hashes are equal and not empty: the
\* similarity pass of AllVsAll emits no pair of equal non-empty hashes, and
\* an entry whose fingerprinting failed is in no exact-hash pair.
C28_FlagIffEqualHashes ==
    Matched =>
        \A i \in 1..Len(candidates) :
            candidates[i].exact_hash_match <=>
                /\ candidates[i].file1.content_hash = candidates[i].file2.content_hash
                /\ candidates[i].file1.content_hash # ""
                /\ candidates[i].file2.content_hash # ""

\* AllVsAll paired two files of the same content, one of which could not be
\* fingerprinted, without the flag
C28_Witness ==
    /\ Matched
    /\ config.pairing = "AllVsAll"
    /\ \E i \in 1..Len(candidates) :
          /\ ~candidates[i].exact_hash_match
          /\ candidates[i].file1.content_hash = ""
          /\ candidates[i].file2.content_hash # ""
          /\ FileAt(candidates[i].file1.path).content
                = FileAt(candidates[i].file2.path).content

-----------------------------------------------------------------------------
(* C29: the exact-hash shortcut and the full comparison *)

\* a pair with exact_hash_match has both results
PairCompared == call.fn = "compare_pair" /\ IsSome(ret)

\* C29: for a pair with exact_hash_match, the result create_identical_result
\* builds is equal in every field (line or row counts, common count, diff
\* body, column lists) to the result the dispatched comparator returns for
\* the same pair and config.
C29_ShortcutEqualsComparison ==
    PairCompared => Unwrap(ret).shortcut = Unwrap(ret).compared

-----------------------------------------------------------------------------
(* C30: the line counts of a text result *)

\* C30: every result of compare_text_files conserves the line counts:
\* common_lines + only_in_file1 = file1_line_count and common_lines +
\* only_in_file2 = file2_line_count, for every pair of normalized line
\* sequences, empty files and files whose last normalized line is empty
\* included.
C30_LineCountsConserved ==
    TextCompared =>
        /\ Unwrap(ret).common_lines + Unwrap(ret).only_in_file1
              = Unwrap(ret).file1_line_count
        /\ Unwrap(ret).common_lines + Unwrap(ret).only_in_file2
              = Unwrap(ret).file2_line_count
        /\ Unwrap(ret).file1_line_count = Len(Lines1)
        /\ Unwrap(ret).file2_line_count = Len(Lines2)

-----------------------------------------------------------------------------
(* C21: two executions on the same file contents and the same config produce
   equal results, equal in every field: for the result of a table comparison
   the order of common_columns, the order of field_mismatches and the sample
   mismatches chosen are the same in both executions. *)

\* two executions of the table comparison of one pair have returned
ComparedTwice == call.fn = "compare_structured_files_twice" /\ IsSome(ret)

C21_ExecutionsAgree ==
    ComparedTwice => Unwrap(ret)[1] = Unwrap(ret)[2]

====
